---- MODULE Spec2Model ----
(***************************************************************************)
(* Usage ledger of the PDF-reader backend (server/repository.py): plans,   *)
(* usage periods resolved on the plan's monthly anniversary, counter       *)
(* increments and quota checks, as run by concurrent requests that each    *)
(* own a database session.                                                 *)
(***************************************************************************)
EXTENDS Integers, Sequences, FiniteSets, TLC

VARIABLES
    \* ---- period resolution loop of get_or_create_user_usage, run alone ----
    loop_pc,          \* "idle" | "while" | "done"
    plan_start_date,  \* plan.started_at.date()
    current_date,     \* date.today()
    period_start,
    period_end,
    days_ahead,       \* days between plan_start_date and current_date
    \* ---- the database ----
    today,            \* the wall clock's date
    tick,             \* the wall clock's time of day, as a count of readings
    user_plans,       \* table user_plans, a row's id being its index
    user_usage,       \* table user_usage, a row's id being its index
    \* ---- one request, with its own session ----
    pc,               \* the statement each request is at
    op,               \* the operation it runs and its arguments
    plan,             \* id of the plan it resolved (0: none)
    existing_plans,   \* set_user_plan: ids of the active plans it loaded
    started_at,       \* set_user_plan: new_plan.started_at
    usage,            \* the UserUsage object its session holds
    ret,              \* what it returned
    \* ---- bookkeeping for the properties ----
    applied,          \* per usage row, the sum of the positive deltas committed to it
    last_call,        \* the row get_or_create_user_usage returned last, if no counter
                      \* was written and no day passed since
    repeated,         \* whether that return repeated a call for the same user and plan
    raced,            \* whether the request's insert hit the unique constraint
    \* ---- the chat handler (main.py: send_chat_message) ----
    chat,             \* per request: how far its chat handler got, and what it did
    interleaved,      \* whether a chat request ever started while another request ran
    \* ---- a limit check applied to a given usage_data, run alone ----
    check_data,       \* what get_user_usage returned
    check_amount,     \* file_size / tokens_needed
    check_result,     \* the check applied last and the (allowed, message) it returned
    \* ---- one run of AIService.generate_response_stream, run alone ----
    stream_pc,        \* the statement the generator is at
    provider,         \* self.provider
    cached_token,     \* whether self._cached_token holds an unexpired token
    token_ok,         \* whether the token endpoint would grant a token
    upstream,         \* the chunks the provider's stream delivers
    failure,          \* whether, where and how the provider fails
    pos,              \* chunks consumed so far
    last_chunk,
    emitted,          \* the items the generator yielded, in order
    create_calls,     \* calls of client.chat.completions.create
    token_requests,   \* POSTs to the token endpoint
    raised,           \* whether an exception left the generator
    caller_tokens_used, \* tokens_used of the consuming generate_response
    \* ---- the GigaChat token cache of AIService (ai_service.py), run alone ----
    now,              \* int(time.time())
    ticks,            \* how often the clock advanced
    _cached_token,    \* self._cached_token: None or a TokenInfo
    exchanges,        \* POSTs to the credential endpoint so far
    token_call,       \* the call made last, with its inputs and its outcome
    token_prev,       \* the call made before that one
    \* ---- AIService.build_context_pages with its callers, run alone ----
    ctx_pc,           \* "request" | "build" | "done"
    current_page,
    total_pages,
    context_type,
    chapter_id,       \* request.chapterId: None, or the id of a row, stored or not
    chapter,          \* the document_structure row with that id, None if there is none
    chat_context_pages, \* self.context_pages, from CHAT_CONTEXT_PAGES
    chapter_info,
    context_pages,    \* what build_context_pages returned
    context_desc,     \* the context description of the system message
    \* ---- extract_pdf_outline (pdf_utils.py), run alone ----
    outline_pc,       \* "toc" | "fix" | "done"
    outline,          \* doc.get_toc(): a sequence of (level, page)
    page_count,       \* doc.page_count
    structure_items,
    \* ---- table documents, written by create_document_endpoint ----
    documents,        \* the rows create_document inserted, in order
    \* ---- table document_structure with extract_document_structure (main.py), run alone ----
    document_structure, \* the rows stored, each with the extraction that inserted it
    extractions,      \* calls of save_document_structure so far
    structure_call,   \* the request handled last, with what it extracted and answered
    \* ---- the except branches of the two streaming entry points, run alone ----
    error_text,       \* str(e)
    classified,       \* per entry point, the message its except branch yielded
    \* ---- send_chat_message with its generate_response (main.py), run alone ----
    gen_pc,           \* the statement the handler or its generator is at
    gen_use_context,  \* use_context: which generate_response serves the request
    ai_items,         \* what the ai_service stream still has to deliver
    commit_fails,     \* whether the commit of the assistant message raises
    chat_messages,    \* table chat_messages: the roles stored, in order
    sse_events,       \* the events the generator yielded, in order
    gen_tokens_used,  \* tokens_used of generate_response
    usage_increments, \* calls of increment_user_usage, with their arguments
    \* ---- tables document_shares and document_share_access, run alone ----
    document_shares,  \* the rows, a row's id being its index
    document_share_access, \* pairs (share id, user id)
    utcnow,           \* datetime.utcnow()
    share_call        \* the HTTP status of the call made last

loopVars == <<loop_pc, plan_start_date, current_date, period_start, period_end, days_ahead>>

callVars == <<last_call, repeated>>

dbVars == <<today, tick, user_plans, user_usage, applied, callVars>>

reqVars == <<pc, op, plan, existing_plans, started_at, usage, ret, raced>>

chatVars == <<chat, interleaved, documents>>

checkVars == <<check_data, check_amount, check_result>>

streamVars == <<stream_pc, provider, cached_token, token_ok, upstream, failure, pos,
                last_chunk, emitted, create_calls, token_requests, raised, caller_tokens_used>>

tokenVars == <<now, ticks, _cached_token, exchanges, token_call, token_prev>>

ctxVars == <<ctx_pc, current_page, total_pages, context_type, chapter_id, chapter,
             chat_context_pages, chapter_info, context_pages, context_desc>>

outlineVars == <<outline_pc, outline, page_count, structure_items>>

structVars == <<document_structure, extractions, structure_call>>

classifyVars == <<error_text, classified>>

genVars == <<gen_pc, gen_use_context, ai_items, commit_fails, chat_messages, sse_events,
             gen_tokens_used, usage_increments>>

shareVars == <<document_shares, document_share_access, utcnow, share_call>>

storeVars == <<structVars, classifyVars, genVars, shareVars>>

aiVars == <<tokenVars, ctxVars, outlineVars, storeVars>>

\* the components that are run alone
pureVars == <<checkVars, streamVars, aiVars>>

vars == <<loopVars, dbVars, reqVars, chatVars, pureVars>>

(***************************************************************************)
(* Bounds                                                                  *)
(***************************************************************************)
\* how many days after the activation date the clock is followed
MaxAhead == 70

\* activation years the period loop is run for: a common year and a leap year
AnchorYears == {2023, 2024}

\* rows of user_plans the model lets a user accumulate
MaxPlans == 2

\* the largest value the model lets a counter reach
MaxCount == 2

\* the largest usage, cap and requested amount the limit checks are applied to
MaxCheck == 2

\* the most chunks the provider's stream delivers
MaxChunks == 2

\* how often the clock advances while the token cache is followed
MaxTicks == 2

\* the most credential exchanges the model follows
MaxExchanges == 2

\* the most entries of a table of contents
MaxEntries == 3

\* the deepest level of a table-of-contents entry
MaxLevel == 2

\* the most pages of a document
MaxPages == 3

\* the largest CHAT_CONTEXT_PAGES the context builder is configured with
MaxRadius == 1

\* how many outlines extract_document_structure saves
MaxExtractions == 2

\* the longest error text, in words
MaxWords == 2

\* how many shares are created
MaxShares == 2

\* max_questions_per_month of the plan_limits rows
BetaMaxQuestions == 1
PlusMaxQuestions == 2

(***************************************************************************)
(* datetime.date                                                           *)
(***************************************************************************)
Date(y, m, d) == [y |-> y, m |-> m, d |-> d]

IsLeap(y) == y % 4 = 0 /\ (y % 100 # 0 \/ y % 400 = 0)

DaysInMonth(y, m) ==
    IF m = 2 THEN (IF IsLeap(y) THEN 29 ELSE 28)
    ELSE IF m \in {4, 6, 9, 11} THEN 30 ELSE 31

\* date(y, m, d) raises ValueError unless the day exists in the month
ValidDate(y, m, d) == m \in 1..12 /\ d \in 1..DaysInMonth(y, m)

\* d - timedelta(days=1)
PrevDay(dt) ==
    IF dt.d > 1 THEN Date(dt.y, dt.m, dt.d - 1)
    ELSE IF dt.m > 1 THEN Date(dt.y, dt.m - 1, DaysInMonth(dt.y, dt.m - 1))
    ELSE Date(dt.y - 1, 12, 31)

\* d + timedelta(days=1)
NextDay(dt) ==
    IF dt.d < DaysInMonth(dt.y, dt.m) THEN Date(dt.y, dt.m, dt.d + 1)
    ELSE IF dt.m < 12 THEN Date(dt.y, dt.m + 1, 1)
    ELSE Date(dt.y + 1, 1, 1)

DateLT(a, b) ==
    \/ a.y < b.y
    \/ a.y = b.y /\ a.m < b.m
    \/ a.y = b.y /\ a.m = b.m /\ a.d < b.d

DateLE(a, b) == a = b \/ DateLT(a, b)

(***************************************************************************)
(* calculate_period_dates: the inclusive end of the period that starts on  *)
(* start_date                                                              *)
(***************************************************************************)
calculate_period_end(s) ==
    IF s.m = 12 THEN
        IF ValidDate(s.y + 1, 1, s.d)
        THEN PrevDay(Date(s.y + 1, 1, s.d))
        ELSE Date(s.y, 12, 31)
    ELSE IF ValidDate(s.y, s.m + 1, s.d)
        THEN PrevDay(Date(s.y, s.m + 1, s.d))
    ELSE IF s.m + 1 = 2 THEN
        IF s.y % 4 = 0 /\ (s.y % 100 # 0 \/ s.y % 400 = 0)
        THEN PrevDay(Date(s.y, 2, 29))
        ELSE PrevDay(Date(s.y, 2, 28))
    ELSE IF s.m + 1 \in {4, 6, 9, 11}
        THEN PrevDay(Date(s.y, s.m + 1, 30))
        ELSE PrevDay(Date(s.y, s.m + 1, 31))

calculate_period_dates(start_date) == <<start_date, calculate_period_end(start_date)>>

\* period_start = period_end + timedelta(days=1)
NextPeriodStartSameDay(e) == e

NextPeriodStart(e) == NextDay(e)

(***************************************************************************)
(* The ledger's tables and the requests' sessions                          *)
(***************************************************************************)
\* two requests, each with its own session
Requests == {1, 2}

Users == {"u1"}

\* SetUserPlanRequest.planType admits beta, base and plus; two of them are modelled
PlanTypes == {"beta", "plus"}

\* the dates the wall clock takes, in order
ClockDates == <<Date(2023, 1, 31), Date(2023, 2, 28)>>

Counters == {"storage_bytes_used", "files_count", "tokens_used", "questions_count"}

\* the argument of increment_user_usage that feeds each counter
ArgOf(c) ==
    CASE c = "storage_bytes_used" -> "storage_bytes"
      [] c = "files_count" -> "files"
      [] c = "tokens_used" -> "tokens"
      [] c = "questions_count" -> "questions"

Delta(sb, f, t, q) == [storage_bytes |-> sb, files |-> f, tokens |-> t, questions |-> q]

\* the deltas requests pass: a chat answer (tokens, questions=1), which leaves
\* the other arguments at their default 0, and a negative delta
UsageDeltas == { Delta(0, 0, 1, 1), Delta(-1, 0, 0, 0) }

NoUsage == [id |-> 0]

NoRet == [kind |-> "none"]

NoStamp == <<>>

ZeroCounters ==
    [storage_bytes_used |-> 0, files_count |-> 0, tokens_used |-> 0, questions_count |-> 0]

UserPlan(u, t, at) == [user_id |-> u, plan_type |-> t, status |-> "active", started_at |-> at]

\* a UserUsage built with a question already counted
UserUsageCounted(k, u, pl, ps, pe) ==
    [id |-> k, user_id |-> u, plan_id |-> pl, period_start |-> ps, period_end |-> pe,
     storage_bytes_used |-> 0, files_count |-> 0, tokens_used |-> 0, questions_count |-> 1]

\* UserUsage(...) as get_or_create_user_usage builds it: the four counters at 0
UserUsage(k, u, pl, ps, pe) ==
    [id |-> k, user_id |-> u, plan_id |-> pl, period_start |-> ps, period_end |-> pe,
     storage_bytes_used |-> 0, files_count |-> 0, tokens_used |-> 0, questions_count |-> 0]

\* a nullable integer column
Null == [is_none |-> TRUE]

NotNull(n) == [is_none |-> FALSE, value |-> n]

\* table plan_limits; max_files is nullable, NULL meaning unlimited
PlanLimits(t) ==
    IF t = "beta"
    THEN [plan_type |-> "beta", max_storage_bytes |-> 2, max_files |-> NotNull(1),
          max_single_file_bytes |-> 1, max_tokens_per_month |-> 2,
          max_questions_per_month |-> BetaMaxQuestions]
    ELSE [plan_type |-> "plus", max_storage_bytes |-> 3, max_files |-> Null,
          max_single_file_bytes |-> 2, max_tokens_per_month |-> 3,
          max_questions_per_month |-> PlusMaxQuestions]

NoLimits == [is_none |-> TRUE]

\* get_plan_limits: the row of the plan type, None without one
get_plan_limits(t) ==
    IF t \in PlanTypes THEN [is_none |-> FALSE, row |-> PlanLimits(t)] ELSE NoLimits

PlanIds == 1..Len(user_plans)

UsageIds == 1..Len(user_usage)

\* started_at is <<date, time of day>>
StampLE(a, b) == DateLT(a[1], b[1]) \/ (a[1] = b[1] /\ a[2] <= b[2])

ActivePlans(u) ==
    { i \in PlanIds : user_plans[i].user_id = u /\ user_plans[i].status = "active" }

\* get_user_plan: the most recently started active plan, 0 for None
get_user_plan(u) ==
    IF ActivePlans(u) = {} THEN 0
    ELSE CHOOSE i \in ActivePlans(u) :
            \A j \in ActivePlans(u) : StampLE(user_plans[j].started_at, user_plans[i].started_at)

\* the query on user_usage by (user_id, period_start): the ids it matches
UsageRowsFor(u, ps) ==
    { k \in UsageIds : user_usage[k].user_id = u /\ user_usage[k].period_start = ps }

\* the unique constraint of user_usage on (user_id, period_start)
UniqueViolation(u, ps) == UsageRowsFor(u, ps) # {}

\* a query that matches no row
FirstUsageRowNone(u, ps) == 0

\* .first() of that query
FirstUsageRow(u, ps) ==
    IF UsageRowsFor(u, ps) = {} THEN 0
    ELSE CHOOSE k \in UsageRowsFor(u, ps) : \A j \in UsageRowsFor(u, ps) : k <= j

\* the period loop of get_or_create_user_usage, run to its break
RECURSIVE ResolvePeriod(_, _)
ResolvePeriod(ps, cur) ==
    LET e == calculate_period_dates(ps)[2] IN
    IF DateLE(cur, e) THEN ps ELSE ResolvePeriod(NextPeriodStart(e), cur)

\* requests that are about to run, or are inside, set_user_plan
PlansInFlight == { q \in Requests : pc[q] \in {"get_plan", "set_plan_query", "set_plan_commit"} }

PositivePart(d) == IF d > 0 THEN d ELSE 0

RECURSIVE MaxApplied(_, _)
MaxApplied(k, c) ==
    IF k = 0 THEN 0
    ELSE LET m == MaxApplied(k - 1, c) IN IF applied[k][c] > m THEN applied[k][c] ELSE m

\* the model stops issuing increments once the deltas committed to a counter,
\* with the new one, would pass MaxCount
RoomFor(d) ==
    \A c \in Counters : MaxApplied(Len(applied), c) + PositivePart(d[ArgOf(c)]) <= MaxCount

\* a request that is not a chat
NoChat ==
    [path |-> "none", phase |-> "none", invoked |-> FALSE, tokens_check |-> "none",
     tokens_used |-> 0, counted |-> 0, completed |-> FALSE]

InitLedger ==
    /\ today = ClockDates[1]
    /\ tick = 0
    /\ user_plans = <<>>
    /\ user_usage = <<>>
    /\ applied = <<>>
    /\ pc = [r \in Requests |-> "idle"]
    /\ op = [r \in Requests |-> [kind |-> "none"]]
    /\ plan = [r \in Requests |-> 0]
    /\ existing_plans = [r \in Requests |-> {}]
    /\ started_at = [r \in Requests |-> NoStamp]
    /\ usage = [r \in Requests |-> NoUsage]
    /\ ret = [r \in Requests |-> NoRet]
    /\ last_call = NoUsage
    /\ repeated = FALSE
    /\ raced = [r \in Requests |-> FALSE]
    /\ chat = [r \in Requests |-> NoChat]
    /\ interleaved = FALSE
    /\ documents = <<>>

(***************************************************************************)
(* Requests. Each step is one round trip of the request's session to the   *)
(* database; what a session has loaded stays as loaded until it reloads.   *)
(***************************************************************************)
UserOf(r) == op[r].user_id

\* whether the request is inside increment_user_usage, called directly or by its handler
Incrementing(r) ==
    \/ op[r].kind = "increment_user_usage"
    \/ op[r].kind = "send_chat_message" /\ chat[r].phase = "increment"
    \/ op[r].kind = "create_document" /\ op[r].stage = "increment"

\* where a request goes once get_or_create_user_usage has returned
AfterUsage(r) == IF Incrementing(r) THEN "increment" ELSE "limits"

\* the arguments increment_user_usage is called with
DeltaOf(r) ==
    CASE op[r].kind = "send_chat_message" -> Delta(0, 0, chat[r].tokens_used, 1)
      [] op[r].kind = "create_document" -> Delta(op[r].size_bytes, 1, 0, 0)
      [] OTHER -> op[r].delta

\* get_or_create_user_usage returns row
Returns(r, row) ==
    /\ last_call' = row
    /\ repeated' = (/\ last_call.id # 0
                    /\ last_call.user_id = UserOf(r)
                    /\ last_call.plan_id = plan[r])

ForgetCall == last_call' = NoUsage /\ repeated' = FALSE

StartIncrement(r) ==
    /\ pc[r] = "idle"
    /\ \E u \in Users, d \in UsageDeltas :
        /\ RoomFor(d)
        /\ op' = [op EXCEPT ![r] = [kind |-> "increment_user_usage", user_id |-> u, delta |-> d]]
    /\ pc' = [pc EXCEPT ![r] = "get_plan"]
    /\ UNCHANGED <<loopVars, pureVars, chatVars, dbVars, plan, existing_plans, started_at, usage, ret, raced>>

StartRead(r) ==
    /\ pc[r] = "idle"
    /\ \E u \in Users :
        op' = [op EXCEPT ![r] = [kind |-> "check_questions_limit", user_id |-> u]]
    /\ pc' = [pc EXCEPT ![r] = "get_plan"]
    /\ UNCHANGED <<loopVars, pureVars, chatVars, dbVars, plan, existing_plans, started_at, usage, ret, raced>>

\* the token cost a chat stream ends with: 0 when the stream carried no usage item
TokenCosts == {0, 1}

\* sizes of the files uploaded
UploadSizes == {1, 2}

\* a request that runs while r starts
Overlaps(r) == \E q \in Requests \ {r} : pc[q] \notin {"idle", "done"}

\* POST /api/chat/threads/{thread_id}/messages, with or without document context
StartChat(r) ==
    /\ pc[r] = "idle"
    /\ RoomFor(Delta(0, 0, 1, 1))
    /\ \E u \in Users, use_context \in BOOLEAN :
        /\ op' = [op EXCEPT ![r] = [kind |-> "send_chat_message", user_id |-> u]]
        /\ chat' = [chat EXCEPT ![r] =
                [NoChat EXCEPT !.path = IF use_context THEN "context" ELSE "no_context",
                               !.phase = "check"]]
    /\ interleaved' = (interleaved \/ Overlaps(r))
    /\ pc' = [pc EXCEPT ![r] = "get_plan"]
    /\ UNCHANGED <<loopVars, pureVars, documents, dbVars, plan, existing_plans, started_at, usage, ret, raced>>

\* POST /api/documents with a PDF of size_bytes
StartUpload(r) ==
    /\ pc[r] = "idle"
    /\ \E u \in Users, size \in UploadSizes :
        /\ RoomFor(Delta(size, 1, 0, 0))
        /\ op' = [op EXCEPT ![r] = [kind |-> "create_document", user_id |-> u,
                                    size_bytes |-> size, stage |-> "check_single_file_limit"]]
    /\ pc' = [pc EXCEPT ![r] = "get_plan"]
    /\ UNCHANGED <<loopVars, pureVars, chatVars, dbVars, plan, existing_plans, started_at, usage, ret, raced>>

StartSetPlan(r) ==
    /\ pc[r] = "idle"
    /\ Len(user_plans) + Cardinality(PlansInFlight) < MaxPlans
    /\ \E u \in Users, t \in PlanTypes :
        op' = [op EXCEPT ![r] = [kind |-> "set_user_plan", user_id |-> u, plan_type |-> t]]
    /\ pc' = [pc EXCEPT ![r] = "set_plan_query"]
    /\ UNCHANGED <<loopVars, pureVars, chatVars, dbVars, plan, existing_plans, started_at, usage, ret, raced>>

\* get_user_plan, and the choice to create the default plan
GetPlan(r) ==
    /\ pc[r] = "get_plan"
    /\ LET p == get_user_plan(UserOf(r)) IN
        /\ plan' = [plan EXCEPT ![r] = p]
        /\ pc' = [pc EXCEPT ![r] = IF p = 0 THEN "set_plan_query" ELSE "get_or_create"]
    /\ UNCHANGED <<loopVars, pureVars, chatVars, dbVars, op, existing_plans, started_at, usage, ret, raced>>

\* set_user_plan up to db.add: load the active plans, mark them expired in the
\* session, build the new plan
SetPlanQuery(r) ==
    /\ pc[r] = "set_plan_query"
    /\ existing_plans' = [existing_plans EXCEPT ![r] = ActivePlans(UserOf(r))]
    /\ started_at' = [started_at EXCEPT ![r] = <<today, tick>>]
    /\ tick' = tick + 1
    /\ pc' = [pc EXCEPT ![r] = "set_plan_commit"]
    /\ UNCHANGED <<loopVars, pureVars, chatVars, today, user_plans, user_usage, applied, callVars, op, plan, usage, ret, raced>>

\* set_user_plan's commit: the loaded plans are written expired, the new one inserted
SetPlanCommit(r) ==
    /\ pc[r] = "set_plan_commit"
    /\ LET t == IF op[r].kind = "set_user_plan" THEN op[r].plan_type ELSE "beta"
           expired == [i \in PlanIds |->
                          IF i \in existing_plans[r]
                          THEN [user_plans[i] EXCEPT !.status = "expired"]
                          ELSE user_plans[i]]
       IN
        /\ user_plans' = Append(expired, UserPlan(UserOf(r), t, started_at[r]))
        /\ plan' = [plan EXCEPT ![r] = Len(user_plans) + 1]
    /\ IF op[r].kind = "set_user_plan"
       THEN /\ pc' = [pc EXCEPT ![r] = "done"]
            /\ ret' = [ret EXCEPT ![r] = [kind |-> "plan", plan_id |-> Len(user_plans) + 1]]
       ELSE /\ pc' = [pc EXCEPT ![r] = "get_or_create"]
            /\ ret' = ret
    /\ UNCHANGED <<loopVars, pureVars, chatVars, today, tick, user_usage, applied, callVars, op, existing_plans, started_at, usage, raced>>

\* get_or_create_user_usage up to its first commit: resolve the period, look the
\* row up, return it, or go on to write
GetOrCreate(r) ==
    /\ pc[r] = "get_or_create"
    /\ LET ps == ResolvePeriod(user_plans[plan[r]].started_at[1], today)
           k == FirstUsageRow(UserOf(r), ps)
       IN
        IF k # 0
        THEN IF user_usage[k].plan_id # plan[r]
             THEN /\ usage' = [usage EXCEPT ![r] = user_usage[k]]
                  /\ pc' = [pc EXCEPT ![r] = "update_plan_id"]
                  /\ UNCHANGED callVars
             ELSE /\ usage' = [usage EXCEPT ![r] = user_usage[k]]
                  /\ pc' = [pc EXCEPT ![r] = AfterUsage(r)]
                  /\ Returns(r, user_usage[k])
        ELSE /\ usage' = [usage EXCEPT ![r] =
                    UserUsage(0, UserOf(r), plan[r], ps, calculate_period_dates(ps)[2])]
             /\ pc' = [pc EXCEPT ![r] = "insert"]
             /\ UNCHANGED callVars
    /\ UNCHANGED <<loopVars, pureVars, chatVars, today, tick, user_plans, user_usage, applied, op, plan, existing_plans, started_at, ret, raced>>

\* usage.plan_id = plan_uuid; db.commit(); db.refresh(usage)
UpdatePlanId(r) ==
    /\ pc[r] = "update_plan_id"
    /\ LET k == usage[r].id
           row == [user_usage[k] EXCEPT !.plan_id = plan[r]]
       IN
        /\ user_usage' = [user_usage EXCEPT ![k] = row]
        /\ usage' = [usage EXCEPT ![r] = row]
        /\ Returns(r, row)
    /\ pc' = [pc EXCEPT ![r] = AfterUsage(r)]
    /\ UNCHANGED <<loopVars, pureVars, chatVars, today, tick, user_plans, applied, op, plan, existing_plans, started_at, ret, raced>>

\* the re-read in the except branch, after db.rollback()
RereadFindsNothing(u, ps) == 0

RereadAfterRollback(u, ps) == FirstUsageRow(u, ps)

\* db.add(usage); db.commit(); db.refresh(usage), and the except branch
InsertUsage(r) ==
    /\ pc[r] = "insert"
    /\ LET o == usage[r] IN
        IF UniqueViolation(o.user_id, o.period_start)
        THEN LET k == RereadAfterRollback(o.user_id, o.period_start) IN
             /\ UNCHANGED <<user_usage, applied>>
             /\ raced' = [raced EXCEPT ![r] = TRUE]
             /\ IF k = 0
                THEN /\ pc' = [pc EXCEPT ![r] = "done"]
                     /\ ret' = [ret EXCEPT ![r] = [kind |-> "raised"]]
                     /\ usage' = [usage EXCEPT ![r] = NoUsage]
                     /\ UNCHANGED callVars
                ELSE IF user_usage[k].plan_id # plan[r]
                THEN /\ pc' = [pc EXCEPT ![r] = "update_plan_id"]
                     /\ usage' = [usage EXCEPT ![r] = user_usage[k]]
                     /\ UNCHANGED <<ret, callVars>>
                ELSE /\ pc' = [pc EXCEPT ![r] = AfterUsage(r)]
                     /\ usage' = [usage EXCEPT ![r] = user_usage[k]]
                     /\ Returns(r, user_usage[k])
                     /\ ret' = ret
        ELSE LET row == [o EXCEPT !.id = Len(user_usage) + 1] IN
             /\ user_usage' = Append(user_usage, row)
             /\ applied' = Append(applied, ZeroCounters)
             /\ usage' = [usage EXCEPT ![r] = row]
             /\ Returns(r, row)
             /\ pc' = [pc EXCEPT ![r] = AfterUsage(r)]
             /\ UNCHANGED <<ret, raced>>
    /\ UNCHANGED <<loopVars, pureVars, chatVars, today, tick, user_plans, op, plan, existing_plans, started_at>>

\* the 201 response of create_document_endpoint
Created == [status |-> 201, body |-> [error_type |-> "none"]]

\* if delta > 0: usage.counter += delta
IncrementedUnguarded(old, delta) == old + delta

Incremented(old, delta) == IF delta > 0 THEN old + delta ELSE old

\* increment_user_usage from "Increment counters" to its commit: the session adds
\* to the values it loaded, and the UPDATE carries the attributes it changed
IncrementCommit(r) ==
    /\ pc[r] = "increment"
    /\ LET k == usage[r].id
           d == DeltaOf(r)
           new == [c \in Counters |-> Incremented(usage[r][c], d[ArgOf(c)])]
           dirty == { c \in Counters : new[c] # usage[r][c] }
       IN
        /\ user_usage' = [user_usage EXCEPT ![k] =
                [f \in DOMAIN user_usage[k] |-> IF f \in dirty THEN new[f] ELSE user_usage[k][f]]]
        /\ applied' = [applied EXCEPT ![k] =
                [c \in Counters |-> applied[k][c] + PositivePart(d[ArgOf(c)])]]
    /\ pc' = [pc EXCEPT ![r] = "done"]
    /\ ret' = [ret EXCEPT ![r] =
            CASE op[r].kind = "send_chat_message" -> ret[r]
              [] op[r].kind = "create_document" ->
                    [kind |-> "http", refusal |-> "none", response |-> Created]
              [] OTHER -> [kind |-> "bool", value |-> TRUE]]
    /\ chat' = [chat EXCEPT ![r] =
            IF op[r].kind = "send_chat_message"
            THEN [chat[r] EXCEPT !.counted = chat[r].counted + 1, !.completed = TRUE]
            ELSE chat[r]]
    /\ ForgetCall
    /\ UNCHANGED <<loopVars, pureVars, interleaved, documents, today, tick, user_plans, op, plan, existing_plans, started_at, usage, raced>>

NoneData == [is_none |-> TRUE]

\* the UserUsageResponse get_user_usage builds, None without a plan_limits row
UserUsageResponse(u, limits) ==
    IF limits.is_none THEN NoneData
    ELSE [is_none |-> FALSE,
          planId |-> u.plan_id,
          periodStart |-> u.period_start,
          periodEnd |-> u.period_end,
          storageBytesUsed |-> u.storage_bytes_used,
          filesCount |-> u.files_count,
          tokensUsed |-> u.tokens_used,
          questionsCount |-> u.questions_count,
          maxStorageBytes |-> limits.row.max_storage_bytes,
          maxFiles |-> limits.row.max_files,
          maxSingleFileBytes |-> limits.row.max_single_file_bytes,
          maxTokensPerMonth |-> limits.row.max_tokens_per_month,
          maxQuestionsPerMonth |-> limits.row.max_questions_per_month]

check_questions_limit_gt(usage_data) ==
    IF usage_data.is_none THEN <<FALSE, "Unable to determine usage limits">>
    ELSE IF usage_data.questionsCount > usage_data.maxQuestionsPerMonth
         THEN <<FALSE, "Question limit exceeded">>
         ELSE <<TRUE, "None">>

\* check_questions_limit, given what get_user_usage returned
check_questions_limit(usage_data) ==
    IF usage_data.is_none THEN <<FALSE, "Unable to determine usage limits">>
    ELSE IF usage_data.questionsCount >= usage_data.maxQuestionsPerMonth
         THEN <<FALSE, "Question limit exceeded">>
         ELSE <<TRUE, "None">>

check_storage_limit_ge(usage_data, file_size) ==
    IF usage_data.is_none THEN <<FALSE, "Unable to determine usage limits">>
    ELSE IF usage_data.storageBytesUsed + file_size >= usage_data.maxStorageBytes
         THEN <<FALSE, "Storage limit exceeded">>
         ELSE <<TRUE, "None">>

\* check_storage_limit, given what get_user_usage returned
check_storage_limit(usage_data, file_size) ==
    IF usage_data.is_none THEN <<FALSE, "Unable to determine usage limits">>
    ELSE IF usage_data.storageBytesUsed + file_size > usage_data.maxStorageBytes
         THEN <<FALSE, "Storage limit exceeded">>
         ELSE <<TRUE, "None">>

check_file_count_limit(usage_data) ==
    IF usage_data.is_none THEN <<FALSE, "Unable to determine usage limits">>
    ELSE IF usage_data.maxFiles.is_none THEN <<TRUE, "None">>
    ELSE IF usage_data.filesCount >= usage_data.maxFiles.value
         THEN <<FALSE, "File limit exceeded">>
         ELSE <<TRUE, "None">>

check_single_file_limit(usage_data, file_size) ==
    IF usage_data.is_none THEN <<FALSE, "Unable to determine usage limits">>
    ELSE IF file_size > usage_data.maxSingleFileBytes
         THEN <<FALSE, "File size exceeds limit">>
         ELSE <<TRUE, "None">>

check_tokens_limit(usage_data, tokens_needed) ==
    IF usage_data.is_none THEN <<FALSE, "Unable to determine usage limits">>
    ELSE IF usage_data.tokensUsed + tokens_needed > usage_data.maxTokensPerMonth
         THEN <<FALSE, "Token limit exceeded">>
         ELSE <<TRUE, "None">>

chat_questions_check_gt(usage_data) ==
    IF usage_data.is_none THEN "HTTP_500"
    ELSE IF usage_data.questionsCount > usage_data.maxQuestionsPerMonth
         THEN "LimitExceededError"
         ELSE "accepted"

\* send_chat_message's check before it accepts the message
chat_questions_check(usage_data) ==
    IF usage_data.is_none THEN "HTTP_500"
    ELSE IF usage_data.questionsCount >= usage_data.maxQuestionsPerMonth
         THEN "LimitExceededError"
         ELSE "accepted"

\* the StreamingResponse of an accepted chat message
Streaming == [status |-> 200, body |-> [error_type |-> "none"]]

\* LimitExceededError(limit_type, limit_value, current_usage, limit_period)
LimitExceededError(limit_type, limit_value, current_usage) ==
    [limit_type |-> limit_type, limit_value |-> limit_value,
     current_usage |-> current_usage, limit_period |-> "month"]

\* limit_exceeded_handler: 403 with exc.to_dict()
limit_exceeded_handler(exc) ==
    [status |-> 403,
     body |-> [error_type |-> "limit_exceeded", limit_type |-> exc.limit_type,
               limit_value |-> exc.limit_value, current_usage |-> exc.current_usage,
               limit_period |-> exc.limit_period]]

\* http_exception_handler, on HTTPException(status_code, detail)
http_exception_handler(status_code, detail) ==
    [status |-> status_code, body |-> [error_type |-> "general", error |-> detail]]

\* what send_chat_message answers when its questions check does not accept
chat_refusal(usage_data) ==
    IF usage_data.is_none
    THEN http_exception_handler(500, "Unable to determine usage limits")
    ELSE limit_exceeded_handler(
            LimitExceededError("question", usage_data.maxQuestionsPerMonth,
                               usage_data.questionsCount))

\* the limit check create_document_endpoint makes at each stage
upload_check(stage, usage_data, size_bytes) ==
    CASE stage = "check_single_file_limit" -> check_single_file_limit(usage_data, size_bytes)
      [] stage = "check_storage_limit" -> check_storage_limit(usage_data, size_bytes)
      [] stage = "check_file_count_limit" -> check_file_count_limit(usage_data)

\* the stage after a check that allowed; after the last one the document is
\* created and increment_user_usage called
next_stage(stage) ==
    CASE stage = "check_single_file_limit" -> "check_storage_limit"
      [] stage = "check_storage_limit" -> "check_file_count_limit"
      [] stage = "check_file_count_limit" -> "increment"

\* the limit a refusing check stands for
limit_kind(stage) ==
    CASE stage = "check_single_file_limit" -> "single_file"
      [] stage = "check_storage_limit" -> "storage"
      [] stage = "check_file_count_limit" -> "file"

\* check_questions_limit: get_user_usage from get_plan_limits on, and the check
RespondCheck(r, usage_data) ==
    /\ ret' = [ret EXCEPT ![r] = [kind |-> "check", data |-> usage_data,
                                  result |-> check_questions_limit(usage_data)]]
    /\ pc' = [pc EXCEPT ![r] = "done"]
    /\ UNCHANGED <<op, chat, documents>>

\* send_chat_message: the questions check before the message is accepted, and
\* check_tokens_limit after the stream, whose result is not used
RespondChat(r, usage_data) ==
    IF chat[r].phase = "check"
    THEN LET outcome == chat_questions_check(usage_data) IN
         /\ ret' = [ret EXCEPT ![r] =
                [kind |-> "chat", data |-> usage_data, outcome |-> outcome,
                 refusal |-> IF outcome = "LimitExceededError" THEN "question" ELSE "none",
                 response |-> IF outcome = "accepted" THEN Streaming
                              ELSE chat_refusal(usage_data)]]
         /\ pc' = [pc EXCEPT ![r] = IF outcome = "accepted" THEN "stream" ELSE "done"]
         /\ chat' = [chat EXCEPT ![r].phase = IF outcome = "accepted" THEN "stream" ELSE "refused"]
         /\ UNCHANGED <<op, documents>>
    ELSE /\ chat' = [chat EXCEPT ![r].phase = "increment",
                                 ![r].tokens_check =
                                    IF check_tokens_limit(usage_data, chat[r].tokens_used)[1]
                                    THEN "allowed" ELSE "refused"]
         /\ pc' = [pc EXCEPT ![r] = "get_plan"]
         /\ UNCHANGED <<op, ret, documents>>

\* create_document: the row is inserted and committed
create_document(rows, user_id, size_bytes) ==
    Append(rows, [owner_id |-> user_id, size_bytes |-> size_bytes])

\* create_document_endpoint: one of its three limit checks, and after the last
\* one create_document, which commits the row before increment_user_usage starts
RespondUpload(r, usage_data) ==
    LET stage == op[r].stage
        result == upload_check(stage, usage_data, op[r].size_bytes)
    IN
    IF result[1]
    THEN /\ op' = [op EXCEPT ![r].stage = next_stage(stage)]
         /\ documents' = IF next_stage(stage) = "increment"
                          THEN create_document(documents, op[r].user_id, op[r].size_bytes)
                          ELSE documents
         /\ pc' = [pc EXCEPT ![r] = "get_plan"]
         /\ UNCHANGED <<ret, chat>>
    ELSE /\ ret' = [ret EXCEPT ![r] =
                [kind |-> "http",
                 refusal |-> IF usage_data.is_none THEN "none" ELSE limit_kind(stage),
                 response |-> http_exception_handler(403, result[2])]]
         /\ pc' = [pc EXCEPT ![r] = "done"]
         /\ UNCHANGED <<op, chat, documents>>

\* get_user_usage from get_plan_limits on, and what its caller makes of the result
Respond(r) ==
    /\ pc[r] = "limits"
    /\ LET usage_data == UserUsageResponse(usage[r], get_plan_limits(user_plans[plan[r]].plan_type)) IN
        CASE op[r].kind = "check_questions_limit" -> RespondCheck(r, usage_data)
          [] op[r].kind = "send_chat_message" -> RespondChat(r, usage_data)
          [] op[r].kind = "create_document" -> RespondUpload(r, usage_data)
    /\ UNCHANGED <<loopVars, pureVars, interleaved, dbVars, plan, existing_plans, started_at, usage, raced>>

\* generate_response up to "Update usage counters": the provider is invoked, the
\* stream relayed, the assistant message saved
StreamResponse(r) ==
    /\ pc[r] = "stream"
    /\ \E t \in TokenCosts :
        /\ chat' = [chat EXCEPT ![r] =
                [chat[r] EXCEPT !.invoked = TRUE,
                                !.tokens_used = t,
                                !.phase = IF t > 0
                                          THEN IF chat[r].path = "context"
                                               THEN "tokens_check" ELSE "increment"
                                          ELSE "complete",
                                !.completed = (t = 0)]]
        /\ pc' = [pc EXCEPT ![r] = IF t > 0 THEN "get_plan" ELSE "done"]
    /\ UNCHANGED <<loopVars, pureVars, interleaved, documents, dbVars, op, plan, existing_plans, started_at, usage, ret, raced>>

\* the request ends and its session is closed
Finish(r) ==
    /\ pc[r] = "done"
    /\ pc' = [pc EXCEPT ![r] = "idle"]
    /\ op' = [op EXCEPT ![r] = [kind |-> "none"]]
    /\ plan' = [plan EXCEPT ![r] = 0]
    /\ existing_plans' = [existing_plans EXCEPT ![r] = {}]
    /\ started_at' = [started_at EXCEPT ![r] = NoStamp]
    /\ usage' = [usage EXCEPT ![r] = NoUsage]
    /\ ret' = [ret EXCEPT ![r] = NoRet]
    /\ raced' = [raced EXCEPT ![r] = FALSE]
    /\ chat' = [chat EXCEPT ![r] = NoChat]
    /\ UNCHANGED <<loopVars, pureVars, interleaved, documents, dbVars>>

\* the date changes
AdvanceClock ==
    /\ \E i \in 1..(Len(ClockDates) - 1) :
        /\ today = ClockDates[i]
        /\ today' = ClockDates[i + 1]
    /\ ForgetCall
    /\ UNCHANGED <<loopVars, pureVars, chatVars, tick, user_plans, user_usage, applied, reqVars>>

\* requests interleave freely, within one day; plans come from the default-plan
\* path of the first requests
Step(r) ==
    \/ StartIncrement(r)
    \/ StartRead(r)
    \/ GetPlan(r)
    \/ SetPlanQuery(r)
    \/ SetPlanCommit(r)
    \/ GetOrCreate(r)
    \/ UpdatePlanId(r)
    \/ InsertUsage(r)
    \/ IncrementCommit(r)
    \/ Respond(r)
    \/ Finish(r)

Next == \E r \in Requests : Step(r)

\* Requests served one at a time, with plan changes, the date changing between
\* requests: each request runs to its end, and its session is closed, before the
\* next starts, so one request slot serves them all.
Serial == CHOOSE r \in Requests : TRUE

NextSeq ==
    \/ pc[Serial] = "idle" /\ AdvanceClock
    \/ StartIncrement(Serial)
    \/ StartRead(Serial)
    \/ StartChat(Serial)
    \/ StartSetPlan(Serial)
    \/ GetPlan(Serial)
    \/ SetPlanQuery(Serial)
    \/ SetPlanCommit(Serial)
    \/ GetOrCreate(Serial)
    \/ UpdatePlanId(Serial)
    \/ InsertUsage(Serial)
    \/ IncrementCommit(Serial)
    \/ Respond(Serial)
    \/ StreamResponse(Serial)
    \/ Finish(Serial)

\* chat requests of one user, interleaving freely
StepChat(r) ==
    \/ StartChat(r)
    \/ GetPlan(r)
    \/ SetPlanQuery(r)
    \/ SetPlanCommit(r)
    \/ GetOrCreate(r)
    \/ UpdatePlanId(r)
    \/ InsertUsage(r)
    \/ Respond(r)
    \/ StreamResponse(r)
    \/ IncrementCommit(r)
    \/ Finish(r)

NextChat == \E r \in Requests : StepChat(r)

\* uploads and plan changes, one request at a time
NextUpload ==
    \/ StartUpload(Serial)
    \/ StartSetPlan(Serial)
    \/ GetPlan(Serial)
    \/ SetPlanQuery(Serial)
    \/ SetPlanCommit(Serial)
    \/ GetOrCreate(Serial)
    \/ UpdatePlanId(Serial)
    \/ InsertUsage(Serial)
    \/ Respond(Serial)
    \/ IncrementCommit(Serial)
    \/ Finish(Serial)

\* uploads of one user, interleaving freely
StepUploads(r) ==
    \/ StartUpload(r)
    \/ GetPlan(r)
    \/ SetPlanQuery(r)
    \/ SetPlanCommit(r)
    \/ GetOrCreate(r)
    \/ UpdatePlanId(r)
    \/ InsertUsage(r)
    \/ Respond(r)
    \/ IncrementCommit(r)
    \/ Finish(r)

NextUploads == \E r \in Requests : StepUploads(r)

(***************************************************************************)
(* The limit checks, applied to every usage_data within the bounds         *)
(***************************************************************************)
NoCheck == [fn |-> "none"]

\* maxFiles: NULL, or a number
FileCaps == {Null} \cup { NotNull(n) : n \in 0..MaxCheck }

\* what get_user_usage can hand to a check
CheckInputs ==
    { [is_none |-> FALSE,
       storageBytesUsed |-> sb, filesCount |-> f, tokensUsed |-> t, questionsCount |-> 0,
       maxStorageBytes |-> ms, maxFiles |-> mf, maxSingleFileBytes |-> MaxCheck,
       maxTokensPerMonth |-> mt, maxQuestionsPerMonth |-> MaxCheck] :
        sb \in 0..MaxCheck, f \in 0..MaxCheck, t \in 0..MaxCheck,
        ms \in 0..MaxCheck, mf \in FileCaps, mt \in 0..MaxCheck }

InitChecksAtRest ==
    /\ check_data = NoneData
    /\ check_amount = 0
    /\ check_result = NoCheck

InitChecks ==
    /\ check_data \in CheckInputs \cup {NoneData}
    /\ check_amount \in 0..MaxCheck
    /\ check_result = NoCheck

CheckStorage ==
    /\ check_result' = [fn |-> "check_storage_limit",
                        result |-> check_storage_limit(check_data, check_amount)]
    /\ UNCHANGED <<loopVars, dbVars, reqVars, chatVars, aiVars, streamVars, check_data, check_amount>>

CheckFileCount ==
    /\ check_result' = [fn |-> "check_file_count_limit",
                        result |-> check_file_count_limit(check_data)]
    /\ UNCHANGED <<loopVars, dbVars, reqVars, chatVars, aiVars, streamVars, check_data, check_amount>>

CheckTokens ==
    /\ check_result' = [fn |-> "check_tokens_limit",
                        result |-> check_tokens_limit(check_data, check_amount)]
    /\ UNCHANGED <<loopVars, dbVars, reqVars, chatVars, aiVars, streamVars, check_data, check_amount>>

NextChecks == CheckStorage \/ CheckFileCount \/ CheckTokens

(***************************************************************************)
(* AIService.generate_response_stream and generate_response_stream_no_context *)
(* (ai_service.py), one run of the generator, with the loop of              *)
(* generate_response (main.py) that consumes its items                      *)
(***************************************************************************)
Providers == {"deepseek", "gigachat"}

\* delta.content of a chunk; "" is an empty delta
Contents == {"", "Hel", "lo"}

NoReport == [is_none |-> TRUE]

\* chunk.usage, when the provider reports it
UsageReports ==
    { [is_none |-> FALSE, prompt_tokens |-> 10, completion_tokens |-> 2, total_tokens |-> 12],
      [is_none |-> FALSE, prompt_tokens |-> 0, completion_tokens |-> 0, total_tokens |-> 0] }

Chunk(c, u) == [content |-> c, usage |-> u]

NoChunk == [is_none |-> TRUE]

\* the streams a provider delivers: usage, if reported, comes on the last chunk
RECURSIVE StreamsOfLen(_)
StreamsOfLen(n) ==
    IF n = 0 THEN { <<>> }
    ELSE IF n = 1 THEN { <<Chunk(c, u)>> : c \in Contents, u \in UsageReports \cup {NoReport} }
    ELSE { <<Chunk(c, NoReport)>> \o st : c \in Contents, st \in StreamsOfLen(n - 1) }

Upstreams == UNION { StreamsOfLen(n) : n \in 0..MaxChunks }

\* what str(e) of a provider failure holds, as the except branch tells them apart
ErrorKinds == {"402", "401", "429", "connection", "other"}

NoFailure == [kind |-> "none"]

\* the provider fails at create(), or after it delivered `after` chunks
Failures(st) ==
    {NoFailure}
        \cup { [kind |-> "create", error |-> e] : e \in ErrorKinds }
        \cup { [kind |-> "stream", after |-> n, error |-> e] : n \in 0..Len(st), e \in ErrorKinds }

\* the token endpoint grants a token, refuses, or GIGACHAT_AUTH_KEY is not set
TokenOutcomes == {"granted", "refused", "no_auth_key"}

StrItem(c) == [type |-> "str", content |-> c, synthetic |-> FALSE]

\* a message the generator makes up and yields as a string
ErrorItem(c) == [type |-> "str", content |-> c, synthetic |-> TRUE]

UsageItem(u) ==
    [type |-> "usage", prompt_tokens |-> u.prompt_tokens,
     completion_tokens |-> u.completion_tokens, total_tokens |-> u.total_tokens]

\* the message of the outer except branch
ErrorMessage(e, prov) ==
    CASE e = "402" -> IF prov = "deepseek" THEN "API Error: Insufficient balance (DeepSeek)"
                      ELSE "API Error: Insufficient balance (GigaChat)"
      [] e = "401" -> IF prov = "deepseek" THEN "API Error: Invalid DeepSeek API key"
                      ELSE "API Error: Invalid GigaChat authorization key"
      [] e = "429" -> "API Error: Rate limit exceeded"
      [] e = "connection" -> IF prov = "gigachat" THEN "Connection Error: GigaChat"
                             ELSE "Connection Error"
      [] OTHER -> "Error"

InitStreamAtRest ==
    /\ stream_pc = "idle"
    /\ provider = "deepseek"
    /\ cached_token = FALSE
    /\ token_ok = "granted"
    /\ upstream = <<>>
    /\ failure = NoFailure
    /\ pos = 0
    /\ last_chunk = NoChunk
    /\ emitted = <<>>
    /\ create_calls = 0
    /\ token_requests = 0
    /\ raised = FALSE
    /\ caller_tokens_used = 0

InitStream ==
    /\ stream_pc = "start"
    /\ provider \in Providers
    /\ IF provider = "gigachat"
       THEN cached_token \in BOOLEAN /\ token_ok \in TokenOutcomes
       ELSE cached_token = FALSE /\ token_ok = "granted"
    /\ upstream \in Upstreams
    /\ failure \in Failures(upstream)
    /\ pos = 0
    /\ last_chunk = NoChunk
    /\ emitted = <<>>
    /\ create_calls = 0
    /\ token_requests = 0
    /\ raised = FALSE
    /\ caller_tokens_used = 0

\* the caller's loop body, run on each item before the generator resumes
Consumed(item, tokens_used) ==
    IF item.type = "usage" THEN item.prompt_tokens + item.completion_tokens ELSE tokens_used

YieldFirst(item) ==
    /\ emitted' = <<item>> \o emitted
    /\ caller_tokens_used' = Consumed(item, caller_tokens_used)

\* yield item: the caller gets it after everything yielded before
Yield(item) ==
    /\ emitted' = Append(emitted, item)
    /\ caller_tokens_used' = Consumed(item, caller_tokens_used)

\* the system message is built (the PDF text extraction catches its own errors)
BuildMessages ==
    /\ stream_pc = "start"
    /\ stream_pc' = IF provider = "gigachat" THEN "token" ELSE "create"
    /\ UNCHANGED <<loopVars, dbVars, reqVars, chatVars, aiVars, checkVars, provider, cached_token,
                   token_ok, upstream, failure, pos, last_chunk, emitted, create_calls,
                   token_requests, raised, caller_tokens_used>>

\* where the inner except branch goes once it has yielded its message
TokenErrorFallsThrough == "create"

\* ... yield the message; return
TokenErrorReturns == "end"

\* get_gigachat_token inside the inner try, and its except branch
GetGigachatToken ==
    /\ stream_pc = "token"
    /\ IF cached_token
       THEN /\ stream_pc' = "create"
            /\ UNCHANGED <<cached_token, token_requests, emitted, caller_tokens_used>>
       ELSE IF token_ok = "no_auth_key"
       THEN /\ Yield(ErrorItem("GigaChat Error: Failed to get access token"))
            /\ stream_pc' = TokenErrorReturns
            /\ UNCHANGED <<cached_token, token_requests>>
       ELSE IF token_ok = "refused"
       THEN /\ token_requests' = token_requests + 1
            /\ Yield(ErrorItem("GigaChat Error: Failed to get access token"))
            /\ stream_pc' = TokenErrorReturns
            /\ UNCHANGED cached_token
       ELSE /\ token_requests' = token_requests + 1
            /\ cached_token' = TRUE
            /\ stream_pc' = "create"
            /\ UNCHANGED <<emitted, caller_tokens_used>>
    /\ UNCHANGED <<loopVars, dbVars, reqVars, chatVars, aiVars, checkVars, provider, token_ok,
                   upstream, failure, pos, last_chunk, create_calls, raised>>

\* stream = await self.client.chat.completions.create(...)
CreateStream ==
    /\ stream_pc = "create"
    /\ create_calls' = create_calls + 1
    /\ stream_pc' = IF failure.kind = "create" THEN "except" ELSE "stream"
    /\ UNCHANGED <<loopVars, dbVars, reqVars, chatVars, aiVars, checkVars, provider, cached_token,
                   token_ok, upstream, failure, pos, last_chunk, emitted, token_requests,
                   raised, caller_tokens_used>>

\* one turn of async for chunk in stream
RelayChunk ==
    /\ stream_pc = "stream"
    /\ IF failure.kind = "stream" /\ failure.after = pos
       THEN /\ stream_pc' = "except"
            /\ UNCHANGED <<pos, last_chunk, emitted, caller_tokens_used>>
       ELSE IF pos < Len(upstream)
       THEN LET chunk == upstream[pos + 1] IN
            /\ last_chunk' = chunk
            /\ pos' = pos + 1
            /\ IF chunk.content # ""
               THEN Yield(StrItem(chunk.content))
               ELSE UNCHANGED <<emitted, caller_tokens_used>>
            /\ stream_pc' = "stream"
       ELSE /\ stream_pc' = "usage"
            /\ UNCHANGED <<pos, last_chunk, emitted, caller_tokens_used>>
    /\ UNCHANGED <<loopVars, dbVars, reqVars, chatVars, aiVars, checkVars, provider, cached_token,
                   token_ok, upstream, failure, create_calls, token_requests, raised>>

YieldUsageTwice ==
    /\ stream_pc = "usage"
    /\ IF last_chunk # NoChunk /\ ~last_chunk.usage.is_none
       THEN /\ emitted' = emitted \o <<UsageItem(last_chunk.usage), UsageItem(last_chunk.usage)>>
            /\ caller_tokens_used' = Consumed(UsageItem(last_chunk.usage), caller_tokens_used)
       ELSE UNCHANGED <<emitted, caller_tokens_used>>
    /\ stream_pc' = "end"
    /\ UNCHANGED <<loopVars, dbVars, reqVars, chatVars, aiVars, checkVars, provider, cached_token,
                   token_ok, upstream, failure, pos, last_chunk, create_calls,
                   token_requests, raised>>

\* if last_chunk and last_chunk.usage: yield the usage item
YieldUsage ==
    /\ stream_pc = "usage"
    /\ IF last_chunk # NoChunk /\ ~last_chunk.usage.is_none
       THEN Yield(UsageItem(last_chunk.usage))
       ELSE UNCHANGED <<emitted, caller_tokens_used>>
    /\ stream_pc' = "end"
    /\ UNCHANGED <<loopVars, dbVars, reqVars, chatVars, aiVars, checkVars, provider, cached_token,
                   token_ok, upstream, failure, pos, last_chunk, create_calls,
                   token_requests, raised>>

\* where the generator goes once the except branch has yielded its message
RetryAfterError(e) == "create"

AfterError(e) == "end"

\* whether `except Exception` catches the provider's exception
CaughtNever(e) == FALSE

CaughtByExcept(e) == e \in ErrorKinds

\* except Exception as e: one message, chosen by str(e)
Except ==
    /\ stream_pc = "except"
    /\ IF CaughtByExcept(failure.error)
       THEN /\ Yield(ErrorItem(ErrorMessage(failure.error, provider)))
            /\ stream_pc' = AfterError(failure.error)
            /\ raised' = raised
       ELSE /\ raised' = TRUE
            /\ stream_pc' = "end"
            /\ UNCHANGED <<emitted, caller_tokens_used>>
    /\ UNCHANGED <<loopVars, dbVars, reqVars, chatVars, aiVars, checkVars, provider, cached_token,
                   token_ok, upstream, failure, pos, last_chunk, create_calls,
                   token_requests>>

NextStream ==
    BuildMessages \/ GetGigachatToken \/ CreateStream \/ RelayChunk \/ YieldUsage \/ Except

(***************************************************************************)
(* The GigaChat token cache: TokenInfo, AIService.get_gigachat_token,      *)
(* clear_token_cache and get_token_info (ai_service.py), called one after  *)
(* another while the clock advances                                        *)
(***************************************************************************)
\* seconds before expires_at from which a token counts as expired
TokenBuffer == 300

\* lifetime, in seconds, given to a token whose response carries no expires_at
DefaultLifetime == 1800

\* seconds the clock advances by between two calls
ClockSteps == {1, 99, 100}

\* access_token strings the credential endpoint answers with
Tokens == {"", "t1", "t2"}

\* expires_at the endpoint reports, in seconds after the exchange
Lifetimes == {200, 400}

TokenInfo(access_token, expires_at, created_at) ==
    [is_none |-> FALSE, access_token |-> access_token, expires_at |-> expires_at,
     created_at |-> created_at]

is_expired_gt(token, current_time) == current_time > token.expires_at - TokenBuffer

\* TokenInfo.is_expired
is_expired(token, current_time) == current_time >= token.expires_at - TokenBuffer

CachedTokenNeverUsable(token, current_time) == FALSE

\* get_gigachat_token's test of the cache
CachedTokenUsable(token, current_time) ==
    ~token.is_none /\ ~is_expired(token, current_time)

\* what requests.post can come to: an exception of the transport, a status that
\* is not a success, a body without access_token, or a token with or without
\* an expires_at
TokenResponses(current_time) ==
    { [kind |-> k, access_token |-> "", expires_at |-> Null] :
        k \in {"request_exception", "bad_status", "no_access_token"} }
    \cup { [kind |-> "ok", access_token |-> a, expires_at |-> e] :
            a \in Tokens,
            e \in {Null} \cup { NotNull(current_time + d) : d \in Lifetimes } }

\* token_data.get("expires_at", int(time.time()) + 1800)
ExpiresAt(response, current_time) ==
    IF response.expires_at.is_none THEN current_time + DefaultLifetime
    ELSE response.expires_at.value

NoTokenCall ==
    [fn |-> "none", at |-> 0, cache_before |-> Null, auth_key |-> FALSE,
     exchanged |-> FALSE, outcome |-> "none", access_token |-> "", exchanges |-> 0]

TokenCall(fn, key, exchanged, outcome, access_token, n) ==
    [fn |-> fn, at |-> now, cache_before |-> _cached_token, auth_key |-> key,
     exchanged |-> exchanged, outcome |-> outcome, access_token |-> access_token,
     exchanges |-> n]

InitTokenAtRest ==
    /\ now = 0
    /\ ticks = 0
    /\ _cached_token = Null
    /\ exchanges = 0
    /\ token_call = NoTokenCall
    /\ token_prev = NoTokenCall

\* the clock advances
Tick ==
    /\ ticks < MaxTicks
    /\ \E step \in ClockSteps : now' = now + step
    /\ ticks' = ticks + 1
    /\ UNCHANGED <<loopVars, dbVars, reqVars, chatVars, checkVars, streamVars, storeVars, ctxVars,
                   outlineVars, _cached_token, exchanges, token_call, token_prev>>

\* the cached token is returned
TokenFromCache ==
    /\ token_call' = TokenCall("get_gigachat_token", FALSE, FALSE, "returned",
                               _cached_token.access_token, exchanges)
    /\ UNCHANGED <<_cached_token, exchanges>>

\* GIGACHAT_AUTH_KEY is not set
TokenNoAuthKey ==
    /\ token_call' = TokenCall("get_gigachat_token", FALSE, FALSE, "raised", "", exchanges)
    /\ UNCHANGED <<_cached_token, exchanges>>

\* the credential exchange and what follows from its response
TokenExchange(response) ==
    /\ exchanges < MaxExchanges
    /\ exchanges' = exchanges + 1
    /\ IF response.kind = "ok"
       THEN /\ _cached_token' = TokenInfo(response.access_token,
                                          ExpiresAt(response, now), now)
            /\ token_call' = TokenCall("get_gigachat_token", TRUE, TRUE, "returned",
                                       response.access_token, exchanges + 1)
       ELSE /\ token_call' = TokenCall("get_gigachat_token", TRUE, TRUE, "raised", "",
                                       exchanges + 1)
            /\ UNCHANGED _cached_token

\* AIService.get_gigachat_token, one call
get_gigachat_token ==
    /\ IF CachedTokenUsable(_cached_token, now)
       THEN TokenFromCache
       ELSE \E auth_key \in BOOLEAN :
                IF ~auth_key THEN TokenNoAuthKey
                ELSE \E response \in TokenResponses(now) : TokenExchange(response)
    /\ token_prev' = token_call
    /\ UNCHANGED <<loopVars, dbVars, reqVars, chatVars, checkVars, streamVars, storeVars, ctxVars,
                   outlineVars, now, ticks>>

ClearedCacheKept(token) == token

\* what clear_token_cache leaves in self._cached_token
ClearedCache(token) == Null

\* AIService.clear_token_cache
clear_token_cache ==
    /\ _cached_token' = ClearedCache(_cached_token)
    /\ token_call' = TokenCall("clear_token_cache", FALSE, FALSE, "returned", "", exchanges)
    /\ token_prev' = token_call
    /\ UNCHANGED <<loopVars, dbVars, reqVars, chatVars, checkVars, streamVars, storeVars, ctxVars,
                   outlineVars, now, ticks, exchanges>>

\* AIService.get_token_info: cache_before of the call is what it returned
get_token_info ==
    /\ token_call' = TokenCall("get_token_info", FALSE, FALSE, "returned", "", exchanges)
    /\ token_prev' = token_call
    /\ UNCHANGED <<loopVars, dbVars, reqVars, chatVars, checkVars, streamVars, storeVars, ctxVars,
                   outlineVars, now, ticks, _cached_token, exchanges>>

\* token_info.is_expired() on the cached token, as test_token_caching asks it
token_is_expired ==
    /\ ~_cached_token.is_none
    /\ token_call' = TokenCall("is_expired", FALSE, FALSE,
                               IF is_expired(_cached_token, now) THEN "expired" ELSE "valid",
                               "", exchanges)
    /\ token_prev' = token_call
    /\ UNCHANGED <<loopVars, dbVars, reqVars, chatVars, checkVars, streamVars, storeVars, ctxVars,
                   outlineVars, now, ticks, _cached_token, exchanges>>

NextToken ==
    Tick \/ get_gigachat_token \/ clear_token_cache \/ get_token_info \/ token_is_expired

(***************************************************************************)
(* extract_pdf_outline (pdf_utils.py): the structure items built from the  *)
(* document's table of contents                                            *)
(***************************************************************************)
TocEntry(level, page) == [level |-> level, page |-> page]

\* page numbers a table-of-contents entry carries, counted from 0 as the loop
\* reads them; -1 is an entry without a target
TocPages == -1..(MaxPages - 1)

\* tables of contents of n entries: the first entry is at level 1 and an entry
\* is at most one level below the one before it
RECURSIVE TocsOfLen(_)
TocsOfLen(n) ==
    IF n = 0 THEN { <<>> }
    ELSE IF n = 1 THEN { <<TocEntry(1, p)>> : p \in TocPages }
    ELSE { t \in { Append(s, TocEntry(l, p)) :
                    s \in TocsOfLen(n - 1), l \in 1..MaxLevel, p \in TocPages } :
            t[n].level <= t[n - 1].level + 1 }

\* the tables of contents of at most n entries
Tocs(n) == UNION { TocsOfLen(k) : k \in 0..n }

\* the table of contents (1, "A", 1), (2, "A.1", 2), (1, "B", 5), as 0-based pages
ExampleToc == <<TocEntry(1, 0), TocEntry(2, 1), TocEntry(1, 4)>>

\* parent_stack after the first i entries
RECURSIVE ParentStack(_, _)
ParentStack(toc, i) ==
    IF i = 0 THEN <<>>
    ELSE Append(SelectSeq(ParentStack(toc, i - 1), LAMBDA p : p.level < toc[i].level),
                [id |-> i, level |-> toc[i].level])

ParentIdPrevious(toc, i) == i - 1

\* parent_id: the last item of the stack with a lower level; 0 is None
ParentId(toc, i) ==
    LET lower == SelectSeq(ParentStack(toc, i - 1), LAMBDA p : p.level < toc[i].level)
    IN IF lower = <<>> THEN 0 ELSE lower[Len(lower)].id

\* pageTo as the loop over the table of contents sets it
FirstPassPageTo(toc, i, count) ==
    IF i < Len(toc)
    THEN IF toc[i + 1].level <= toc[i].level
         THEN IF i = Len(toc) - 1 THEN NotNull(count) ELSE NotNull(toc[i + 1].page + 1)
         ELSE Null
    ELSE NotNull(count)

\* structure_items after the loop over the table of contents; an item's id is
\* its index
FirstPass(toc, count) ==
    [i \in 1..Len(toc) |->
        [id |-> i, level |-> toc[i].level, pageFrom |-> toc[i].page + 1,
         pageTo |-> FirstPassPageTo(toc, i, count), parentId |-> ParentId(toc, i),
         orderIndex |-> i - 1]]

\* the least element of a non-empty set of integers
Least(S) == CHOOSE x \in S : \A y \in S : x <= y

\* "Fix page_to for nested items": the pageTo of item i after the second loop
FixedPageTo(items, i, count) ==
    IF ~items[i].pageTo.is_none THEN items[i].pageTo
    ELSE LET later == { j \in (i + 1)..Len(items) : items[j].level <= items[i].level }
         IN IF later # {} THEN NotNull(items[Least(later)].pageFrom - 1)
            ELSE NotNull(count)

\* what extract_pdf_outline returns for a table of contents
StructureItems(toc, count) ==
    LET items == FirstPass(toc, count)
    IN [i \in 1..Len(toc) |-> [items[i] EXCEPT !.pageTo = FixedPageTo(items, i, count)]]

\* convert_page_number: the page clamped into 1..num_pages, 1 for a string that
\* is not a number; extract_pdf_outline does not call it
convert_page_number(page_str, num_pages) ==
    IF page_str.is_none THEN 1
    ELSE IF page_str.value > num_pages
         THEN (IF num_pages < 1 THEN 1 ELSE num_pages)
         ELSE (IF page_str.value < 1 THEN 1 ELSE page_str.value)

InitOutlineAtRest ==
    /\ outline_pc = "toc"
    /\ outline = <<>>
    /\ page_count = 1
    /\ structure_items = <<>>

InitOutline ==
    /\ outline_pc = "toc"
    /\ \/ outline \in Tocs(MaxEntries) /\ page_count \in 1..MaxPages
       \/ outline = ExampleToc /\ page_count = 10
    /\ structure_items = <<>>

\* the document could not be fetched or opened: the except branch
OutlineFailed ==
    /\ outline_pc = "toc"
    /\ outline_pc' = "failed"
    /\ structure_items' = <<>>
    /\ UNCHANGED <<loopVars, dbVars, reqVars, chatVars, checkVars, streamVars, storeVars, tokenVars,
                   ctxVars, outline, page_count>>

\* extract_pdf_outline on a document that opens
extract_pdf_outline ==
    /\ outline_pc = "toc"
    /\ outline_pc' = "done"
    /\ structure_items' = IF outline = <<>> THEN <<>> ELSE StructureItems(outline, page_count)
    /\ UNCHANGED <<loopVars, dbVars, reqVars, chatVars, checkVars, streamVars, storeVars, tokenVars,
                   ctxVars, outline, page_count>>

NextOutline == OutlineFailed \/ extract_pdf_outline

(***************************************************************************)
(* AIService.build_context_pages (ai_service.py) with the handler that     *)
(* resolves its chapter_info (main.py: send_chat_message) and the context  *)
(* description generate_response_stream builds from the same arguments     *)
(***************************************************************************)
\* max_pages of the "document" branch of build_context_pages
max_pages == 1

\* the page limit the context description of a document announces
DescribedMaxPages == 50

ContextTypes == {"page", "chapter", "section", "document", "none"}

\* current_page: request.pageContext or document.last_viewed_page or 1
CurrentPages == {-1} \cup 1..(MaxPages + 1)

\* the (page_from, page_to) of the rows save_document_structure stores: those of
\* the items extract_pdf_outline returns, for tables of contents of at most n
\* entries in documents of at most m pages
StoredChapters(n, m) ==
    UNION { LET items == StructureItems(t, c)
            IN { [pageFrom |-> items[i].pageFrom, pageTo |-> items[i].pageTo] :
                    i \in 1..Len(t) } :
            t \in Tocs(n), c \in 1..m }

NoChapter == [is_none |-> TRUE]

Min2(a, b) == IF a < b THEN a ELSE b

\* sorted(list(pages))
RECURSIVE sorted(_)
sorted(pages) ==
    IF pages = {} THEN <<>>
    ELSE LET m == Least(pages) IN <<m>> \o sorted(pages \ {m})

\* range(a, b)
range(a, b) == a..(b - 1)

\* the "document" branch
DocumentPages(total) == range(1, Min2(total, max_pages) + 1)

ChapterPagesFromZero(page_from, page_to, total) ==
    range(page_from, Min2(page_to + 1, total + 1))

\* the "chapter" / "section" branch
ChapterPages(page_from, page_to, total) ==
    { page_num \in range(page_from, Min2(page_to + 1, total + 1)) : page_num >= 1 }

PageContextWindow(current, total, radius) == (current - radius)..(current + radius)

\* the default branch; self.context_pages is not read
PageContext(current, total, radius) == {current}

\* build_context_pages: the list returned, or the TypeError of None + 1
build_context_pages(current, total, type, info, radius) ==
    IF type = "document"
    THEN [raised |-> FALSE, pages |-> sorted(DocumentPages(total))]
    ELSE IF type \in {"chapter", "section"} /\ ~info.is_none
    THEN IF info.pageTo.is_none
         THEN [raised |-> TRUE, pages |-> <<>>]
         ELSE [raised |-> FALSE,
               pages |-> sorted(ChapterPages(info.pageFrom, info.pageTo.value, total))]
    ELSE [raised |-> FALSE, pages |-> sorted(PageContext(current, total, radius))]

\* max_pages of MockAIService.build_context_pages
mock_max_pages == 50

\* MockAIService.build_context_pages: the list returned, or the TypeError of None + 1
mock_build_context_pages(current, total, type, info, radius) ==
    IF type = "document"
    THEN [raised |-> FALSE, pages |-> sorted(range(1, Min2(total, mock_max_pages) + 1))]
    ELSE IF type \in {"chapter", "section"} /\ ~info.is_none
    THEN IF info.pageTo.is_none
         THEN [raised |-> TRUE, pages |-> <<>>]
         ELSE [raised |-> FALSE,
               pages |-> sorted({ page_num \in range(info.pageFrom,
                                                     Min2(info.pageTo.value + 1, total + 1)) :
                                    page_num >= 1 })]
    ELSE [raised |-> FALSE,
          pages |-> sorted({current}
                        \cup { current - i : i \in { j \in range(1, radius + 1) : current - j >= 1 } }
                        \cup { current + i : i \in { j \in range(1, radius + 1) :
                                                        current + j <= total } })]

\* context_desc, by the pages it names
ContextDesc(current, total, type, info) ==
    IF type = "document"
    THEN [kind |-> "document", first |-> NotNull(1),
          last |-> NotNull(Min2(total, DescribedMaxPages))]
    ELSE IF type \in {"chapter", "section"} /\ ~info.is_none
    THEN [kind |-> "chapter", first |-> NotNull(info.pageFrom), last |-> info.pageTo]
    ELSE [kind |-> "page", first |-> NotNull(current), last |-> NotNull(current)]

NoPages == [raised |-> FALSE, pages |-> <<>>]

NoDesc == [kind |-> "none", first |-> Null, last |-> Null]

InitContextAtRest ==
    /\ ctx_pc = "request"
    /\ current_page = 1
    /\ total_pages = 1
    /\ context_type = "page"
    /\ chapter_id = "none"
    /\ chapter = NoChapter
    /\ chat_context_pages = 1
    /\ chapter_info = NoChapter
    /\ context_pages = NoPages
    /\ context_desc = NoDesc

InitContext ==
    /\ ctx_pc = "request"
    /\ chapter_id \in {"none", "stored", "unknown"}
    /\ IF chapter_id = "stored"
       THEN chapter \in { [is_none |-> FALSE, pageFrom |-> c.pageFrom, pageTo |-> c.pageTo] :
                           c \in StoredChapters(MaxEntries, MaxPages) }
       ELSE chapter = NoChapter
    /\ current_page \in CurrentPages
    /\ total_pages \in 0..MaxPages
    /\ context_type \in ContextTypes
    /\ chat_context_pages \in 0..MaxRadius
    /\ chapter_info = NoChapter
    /\ context_pages = NoPages
    /\ context_desc = NoDesc

\* send_chat_message: "Get chapter info if context is chapter/section"
ResolveChapter ==
    /\ ctx_pc = "request"
    /\ ctx_pc' = "build"
    /\ chapter_info' =
         IF context_type \in {"chapter", "section"} /\ chapter_id # "none"
                /\ ~chapter.is_none
         THEN [is_none |-> FALSE, pageFrom |-> chapter.pageFrom, pageTo |-> chapter.pageTo]
         ELSE NoChapter
    /\ UNCHANGED <<loopVars, dbVars, reqVars, chatVars, checkVars, streamVars, storeVars, tokenVars,
                   outlineVars, current_page, total_pages, context_type, chapter_id,
                   chapter, chat_context_pages, context_pages, context_desc>>

\* generate_response_stream up to the context description
BuildContext ==
    /\ ctx_pc = "build"
    /\ context_pages' = build_context_pages(current_page, total_pages, context_type,
                                            chapter_info, chat_context_pages)
    /\ IF context_pages'.raised
       THEN ctx_pc' = "raised" /\ UNCHANGED context_desc
       ELSE /\ ctx_pc' = "done"
            /\ context_desc' = ContextDesc(current_page, total_pages, context_type,
                                           chapter_info)
    /\ UNCHANGED <<loopVars, dbVars, reqVars, chatVars, checkVars, streamVars, storeVars, tokenVars,
                   outlineVars, current_page, total_pages, context_type, chapter_id,
                   chapter, chat_context_pages, chapter_info>>

NextContext == ResolveChapter \/ BuildContext

(***************************************************************************)
(* Table document_structure: save_document_structure and                   *)
(* get_document_structure (repository.py), and the endpoint                *)
(* extract_document_structure (main.py) that calls them                    *)
(***************************************************************************)
\* the documents whose outline is extracted
DocumentIds == {"d1", "d2"}

\* what extract_pdf_outline hands to the endpoint: the items of an outline, or
\* [] for a PDF without outline and for any failure, which it swallows
Extracted ==
    { StructureItems(toc, MaxPages) : toc \in Tocs(1) \cup {ExampleToc} }

NoStructureCall == [document_id |-> "none"]

\* the rows of a document, as rows of the table
RowsOf(rows, document_id) == { row \in rows : row.document_id = document_id }

\* save_document_structure: the rows of the document are deleted, a row is
\* inserted for every item (the ids are those extract_pdf_outline made up for
\* this extraction), and both are committed together
save_document_structure(rows, document_id, items, n) ==
    (rows \ RowsOf(rows, document_id))
        \cup { [document_id |-> document_id, extraction |-> n, item |-> items[i]] :
                    i \in 1..Len(items) }

\* get_document_structure: None when the document has no row
get_document_structure(rows, document_id) ==
    IF RowsOf(rows, document_id) = {} THEN Null
    ELSE NotNull(RowsOf(rows, document_id))

InitStructureAtRest ==
    /\ document_structure = {}
    /\ extractions = 0
    /\ structure_call = NoStructureCall

\* POST /api/documents/{document_id}/extract-structure
extract_document_structure ==
    \E document_id \in DocumentIds, force \in BOOLEAN, storage_ok \in BOOLEAN,
       items \in Extracted :
        LET existing_structure == get_document_structure(document_structure, document_id) IN
        IF ~existing_structure.is_none /\ ~force
        THEN \* return existing_structure
             /\ structure_call' = [document_id |-> document_id, force |-> force,
                                   outcome |-> "existing", response |-> existing_structure.value]
             /\ UNCHANGED <<document_structure, extractions>>
        ELSE IF ~storage_ok
        THEN \* no storage client, or no signed URL: HTTPException
             /\ structure_call' = [document_id |-> document_id, force |-> force,
                                   outcome |-> "http_500", response |-> {}]
             /\ UNCHANGED <<document_structure, extractions>>
        ELSE IF items = <<>>
        THEN \* if not structure_items: return DocumentStructureResponse(items=[])
             /\ structure_call' = [document_id |-> document_id, force |-> force,
                                   outcome |-> "extracted", extracted |-> items,
                                   replaced |-> ~existing_structure.is_none,
                                   response |-> {}]
             /\ UNCHANGED <<document_structure, extractions>>
        ELSE /\ extractions < MaxExtractions
             /\ extractions' = extractions + 1
             /\ document_structure' =
                    save_document_structure(document_structure, document_id, items, extractions + 1)
             /\ structure_call' = [document_id |-> document_id, force |-> force,
                                   outcome |-> "extracted", extracted |-> items,
                                   replaced |-> ~existing_structure.is_none,
                                   response |-> RowsOf(document_structure', document_id)]

ExtractStructure ==
    /\ extract_document_structure
    /\ UNCHANGED <<loopVars, dbVars, reqVars, chatVars, checkVars, streamVars, tokenVars,
                   ctxVars, outlineVars, classifyVars, genVars, shareVars>>

NextStructure == ExtractStructure

(***************************************************************************)
(* The except branches of generate_response_stream_no_context and          *)
(* generate_response_stream (ai_service.py): the message chosen by str(e)  *)
(***************************************************************************)
\* the words an error text is made of
ErrorWords ==
    {"Insufficient", "insufficient", "Balance", "402", "401", "Unauthorized", "unauthorized",
     "429", "Rate", "rate", "limit", "Connection", "connection", "error", "timeout"}

\* str.lower(), word by word
LowerWord(w) ==
    CASE w = "Insufficient" -> "insufficient"
      [] w = "Balance" -> "balance"
      [] w = "Unauthorized" -> "unauthorized"
      [] w = "Rate" -> "rate"
      [] w = "Connection" -> "connection"
      [] OTHER -> w

lower(text) == [i \in 1..Len(text) |-> LowerWord(text[i])]

\* needle in text
In(needle, text) ==
    \E k \in 0..(Len(text) - Len(needle)) :
        \A i \in 1..Len(needle) : text[k + i] = needle[i]

RECURSIVE ErrorTextsOfLen(_)
ErrorTextsOfLen(n) ==
    IF n = 0 THEN { <<>> }
    ELSE { Append(t, w) : t \in ErrorTextsOfLen(n - 1), w \in ErrorWords }

\* str(e) of the exceptions the provider raises
ErrorTexts(n) == UNION { ErrorTextsOfLen(k) : k \in 0..n }

\* the if/elif chain of generate_response_stream_no_context
ErrorKindNoContext(text) ==
    IF In(<<"Insufficient", "Balance">>, text) \/ In(<<"402">>, text) THEN "402"
    ELSE IF In(<<"401">>, text) \/ In(<<"Unauthorized">>, text) THEN "401"
    ELSE IF In(<<"429">>, text) \/ In(<<"rate", "limit">>, lower(text)) THEN "429"
    ELSE IF In(<<"Connection", "error">>, text) \/ In(<<"connection">>, lower(text))
         THEN "connection"
    ELSE "other"

\* the chain of generate_response_stream with "401" tested first
ErrorKindAuthFirst(text) ==
    IF In(<<"401">>, text) \/ In(<<"Unauthorized">>, text) THEN "401"
    ELSE IF In(<<"Insufficient", "Balance">>, text) \/ In(<<"402">>, text) THEN "402"
    ELSE IF In(<<"429">>, text) \/ In(<<"rate", "limit">>, lower(text)) THEN "429"
    ELSE IF In(<<"Connection", "error">>, text) \/ In(<<"connection">>, lower(text))
         THEN "connection"
    ELSE "other"

\* the if/elif chain of generate_response_stream
ErrorKind(text) ==
    IF In(<<"Insufficient", "Balance">>, text) \/ In(<<"402">>, text) THEN "402"
    ELSE IF In(<<"401">>, text) \/ In(<<"Unauthorized">>, text) THEN "401"
    ELSE IF In(<<"429">>, text) \/ In(<<"rate", "limit">>, lower(text)) THEN "429"
    ELSE IF In(<<"Connection", "error">>, text) \/ In(<<"connection">>, lower(text))
         THEN "connection"
    ELSE "other"

\* the string a branch yields: a fixed message, with str(e) appended by the
\* f-strings of the last two branches
Yielded(kind, text, prov) ==
    [kind |-> kind,
     message |-> ErrorMessage(kind, prov),
     text |-> IF kind = "other" \/ (kind = "connection" /\ prov # "gigachat")
              THEN NotNull(text) ELSE Null]

NoClassified == [provider |-> "none", no_context |-> <<>>, context |-> <<>>]

InitClassifyAtRest ==
    /\ error_text = <<>>
    /\ classified = NoClassified

\* the provider raises an exception e, the same to both entry points
ProviderRaises ==
    /\ classified.provider = "none"
    /\ \E text \in ErrorTexts(MaxWords), prov \in Providers :
        /\ error_text' = text
        /\ classified' = [NoClassified EXCEPT !.provider = prov]
    /\ UNCHANGED <<loopVars, dbVars, reqVars, chatVars, checkVars, streamVars, tokenVars,
                   ctxVars, outlineVars, structVars, genVars, shareVars>>

\* generate_response_stream_no_context: except Exception as e
ExceptNoContext ==
    /\ classified.provider # "none"
    /\ classified' = [classified EXCEPT !.no_context =
            Append(@, Yielded(ErrorKindNoContext(error_text), error_text, classified.provider))]
    /\ Len(classified.no_context) = 0
    /\ UNCHANGED <<loopVars, dbVars, reqVars, chatVars, checkVars, streamVars, tokenVars,
                   ctxVars, outlineVars, structVars, genVars, shareVars, error_text>>

\* generate_response_stream: except Exception as e
ExceptContext ==
    /\ classified.provider # "none"
    /\ Len(classified.context) = 0
    /\ classified' = [classified EXCEPT !.context =
            Append(@, Yielded(ErrorKind(error_text), error_text, classified.provider))]
    /\ UNCHANGED <<loopVars, dbVars, reqVars, chatVars, checkVars, streamVars, tokenVars,
                   ctxVars, outlineVars, structVars, genVars, shareVars, error_text>>

NextClassify == ProviderRaises \/ ExceptNoContext \/ ExceptContext

(***************************************************************************)
(* Document sharing: create_document_share, get_document_share_by_token,   *)
(* get_active_document_share, revoke_document_share, record_share_access,  *)
(* check_user_has_document_access (repository.py) and their endpoints      *)
(***************************************************************************)
\* the accounts: the owner of the documents and a reader
Accounts == {"u1", "u2"}

\* Document.owner_id
OwnerOf(document_id) == "u1"

\* secrets.token_urlsafe(32): the tokens it can return
ShareTokens == 1..MaxShares

\* ShareDocumentRequest.expiresAt, parsed: None, or the time the clock starts at
Expiries == {Null, NotNull(0)}

\* datetime.utcnow(): the time the shares that expire expire at, and a later time
ShareTimes == {0, 1}

\* the users who open share links
Readers == {"u2"}

\* the status the endpoint called last answered with
NoShareCall == [status |-> 0]

ShareIds(shares) == DOMAIN shares

\* DocumentShare.expires_at.is_(None) or DocumentShare.expires_at > utcnow
NotExpired(share, time) == share.expires_at.is_none \/ share.expires_at.value > time

\* create_document_share: a token no row holds, and the row inserted
create_document_share(shares, document_id, user_id, expires_at, share_token) ==
    Append(shares, [document_id |-> document_id, share_token |-> share_token,
                    created_by |-> user_id, created_at |-> Len(shares) + 1,
                    expires_at |-> expires_at, revoked_at |-> Null])

\* get_document_share_by_token without its test of revoked_at
get_document_share_by_token_unrevoked(shares, share_token, time) ==
    { i \in ShareIds(shares) :
        /\ shares[i].share_token = share_token
        /\ ~(~shares[i].expires_at.is_none /\ shares[i].expires_at.value < time) }

\* get_document_share_by_token: the ids of the rows it can return, none for None
get_document_share_by_token(shares, share_token, time) ==
    { i \in ShareIds(shares) :
        /\ shares[i].share_token = share_token
        /\ shares[i].revoked_at.is_none
        /\ ~(~shares[i].expires_at.is_none /\ shares[i].expires_at.value < time) }

\* get_active_document_share: the newest share that is neither revoked nor expired
get_active_document_share(shares, document_id, time) ==
    LET active == { i \in ShareIds(shares) :
                        /\ shares[i].document_id = document_id
                        /\ shares[i].revoked_at.is_none
                        /\ NotExpired(shares[i], time) }
    IN { i \in active : \A j \in active : shares[j].created_at <= shares[i].created_at }

\* revoke_document_share: the rows its query matches; .first() takes one of them
Revocable(shares, document_id, user_id) ==
    { i \in ShareIds(shares) :
        /\ shares[i].document_id = document_id
        /\ shares[i].created_by = user_id
        /\ shares[i].revoked_at.is_none }

\* check_user_has_document_access: the owner, or a user with an access record
\* of a share of the document that is neither revoked nor expired
check_user_has_document_access(shares, access, document_id, user_id, time) ==
    \/ OwnerOf(document_id) = user_id
    \/ \E i \in ShareIds(shares) :
        /\ <<i, user_id>> \in access
        /\ shares[i].document_id = document_id
        /\ shares[i].revoked_at.is_none
        /\ NotExpired(shares[i], time)

InitShareAtRest ==
    /\ document_shares = <<>>
    /\ document_share_access = {}
    /\ utcnow = 0
    /\ share_call = NoShareCall

shareRest ==
    <<loopVars, dbVars, reqVars, chatVars, checkVars, streamVars, tokenVars,
      ctxVars, outlineVars, structVars, classifyVars, genVars>>

\* time passes
ShareClock ==
    /\ utcnow + 1 \in ShareTimes
    /\ utcnow' = utcnow + 1
    /\ UNCHANGED <<shareRest, document_shares, document_share_access, share_call>>

\* POST /api/documents/{document_id}/share
create_share_endpoint ==
    /\ \E document_id \in DocumentIds, user_id \in Accounts, expires_at \in Expiries :
        LET existing_share == get_active_document_share(document_shares, document_id, utcnow) IN
        IF OwnerOf(document_id) # user_id
        THEN /\ share_call' = [status |-> 404]
             /\ UNCHANGED document_shares
        ELSE IF existing_share # {}
        THEN /\ \E i \in existing_share :
                    share_call' = [status |-> 200]
             /\ UNCHANGED document_shares
        ELSE /\ Len(document_shares) < MaxShares
             /\ \E share_token \in ShareTokens :
                    /\ \A i \in ShareIds(document_shares) :
                            document_shares[i].share_token # share_token
                    /\ document_shares' = create_document_share(document_shares, document_id,
                                                user_id, expires_at, share_token)
                    /\ share_call' = [status |-> 201]
    /\ UNCHANGED <<shareRest, document_share_access, utcnow>>

\* DELETE /api/documents/{document_id}/share
revoke_share_endpoint ==
    /\ \E document_id \in DocumentIds, user_id \in Accounts :
        LET matching == Revocable(document_shares, document_id, user_id) IN
        IF matching = {}
        THEN /\ share_call' = [status |-> 404]
             /\ UNCHANGED document_shares
        ELSE \E i \in matching :
             /\ document_shares' = [document_shares EXCEPT ![i].revoked_at = NotNull(utcnow)]
             /\ share_call' = [status |-> 200]
    /\ UNCHANGED <<shareRest, document_share_access, utcnow>>

\* GET /api/documents/shared/{share_token}/access: the link is opened
get_shared_document_access ==
    /\ \E share_token \in ShareTokens, user_id \in Readers :
        LET share == get_document_share_by_token(document_shares, share_token, utcnow) IN
        IF share = {}
        THEN /\ share_call' = [status |-> 404]
             /\ UNCHANGED document_share_access
        ELSE \E i \in share :
             /\ document_share_access' = document_share_access \cup {<<i, user_id>>}
             /\ share_call' = [status |-> 200]
    /\ UNCHANGED <<shareRest, document_shares, utcnow>>

NextShare ==
    ShareClock \/ create_share_endpoint \/ revoke_share_endpoint \/ get_shared_document_access

(***************************************************************************)
(* send_chat_message and its generator generate_response (main.py), one    *)
(* request followed from the questions check to the end of its stream      *)
(***************************************************************************)
StrChunk == [type |-> "str"]

UsageChunk(n) == [type |-> "usage", prompt_tokens |-> n, completion_tokens |-> 0]

RECURSIVE StrChunks(_)
StrChunks(n) == IF n = 0 THEN <<>> ELSE Append(StrChunks(n - 1), StrChunk)

\* what the ai_service generator yields: strings, its error message being one of
\* them, and then a usage item if the provider reported usage
AiStreams ==
    { StrChunks(n) : n \in 0..MaxChunks }
        \cup { Append(StrChunks(n), UsageChunk(t)) : n \in 0..MaxChunks, t \in TokenCosts }

SseEvent(type) == [type |-> type]

IsTerminal(event) == event.type \in {"complete", "error"}

InitGenAtRest ==
    /\ gen_pc = "idle"
    /\ gen_use_context = FALSE
    /\ ai_items = <<>>
    /\ commit_fails = FALSE
    /\ chat_messages = <<>>
    /\ sse_events = <<>>
    /\ gen_tokens_used = 0
    /\ usage_increments = <<>>

genRest ==
    <<loopVars, dbVars, reqVars, chatVars, checkVars, streamVars, tokenVars,
      ctxVars, outlineVars, structVars, classifyVars, shareVars>>

\* send_chat_message up to `return StreamingResponse(generate_response(), ...)`: the
\* questions check, and create_chat_message for the user's message
SendChatMessage ==
    /\ gen_pc = "idle"
    /\ \E allowed \in BOOLEAN, context \in BOOLEAN, items \in AiStreams, fails \in BOOLEAN :
        IF ~allowed
        THEN /\ gen_pc' = "refused"
             /\ UNCHANGED <<gen_use_context, ai_items, commit_fails, chat_messages>>
        ELSE /\ gen_pc' = "stream"
             /\ gen_use_context' = context
             /\ ai_items' = items
             /\ commit_fails' = fails
             /\ chat_messages' = Append(chat_messages, "user")
    /\ UNCHANGED <<genRest, sse_events, gen_tokens_used, usage_increments>>

\* async for chunk in ai_service.generate_response_stream...(...): one item
RelayItem ==
    /\ gen_pc = "stream"
    /\ ai_items # <<>>
    /\ IF Head(ai_items).type = "usage"
       THEN /\ gen_tokens_used' = Head(ai_items).prompt_tokens + Head(ai_items).completion_tokens
            /\ UNCHANGED sse_events
       ELSE /\ sse_events' = Append(sse_events, SseEvent("chunk"))
            /\ UNCHANGED gen_tokens_used
    /\ ai_items' = Tail(ai_items)
    /\ UNCHANGED <<genRest, gen_pc, gen_use_context, commit_fails, chat_messages, usage_increments>>

\* the stream has ended: db.add(assistant_message_model), db.commit(); an
\* exception goes to `except Exception`, which yields the error event
SaveAssistantMessage ==
    /\ gen_pc = "stream"
    /\ ai_items = <<>>
    /\ IF commit_fails
       THEN /\ sse_events' = Append(sse_events, SseEvent("error"))
            /\ gen_pc' = "end"
            /\ UNCHANGED chat_messages
       ELSE /\ chat_messages' = Append(chat_messages, "assistant")
            /\ gen_pc' = "usage"
            /\ UNCHANGED sse_events
    /\ UNCHANGED <<genRest, gen_use_context, ai_items, commit_fails, gen_tokens_used,
                   usage_increments>>

\* if tokens_used > 0: increment_user_usage(db, user_id, tokens=tokens_used, questions=1)
UpdateUsage ==
    /\ gen_pc = "usage"
    /\ usage_increments' =
            IF gen_tokens_used > 0
            THEN Append(usage_increments, Delta(0, 0, gen_tokens_used, 1))
            ELSE usage_increments
    /\ gen_pc' = "complete"
    /\ UNCHANGED <<genRest, gen_use_context, ai_items, commit_fails, chat_messages, sse_events,
                   gen_tokens_used>>

\* yield the 'complete' event
SendComplete ==
    /\ gen_pc = "complete"
    /\ sse_events' = Append(sse_events, SseEvent("complete"))
    /\ gen_pc' = "end"
    /\ UNCHANGED <<genRest, gen_use_context, ai_items, commit_fails, chat_messages,
                   gen_tokens_used, usage_increments>>

\* the client stops consuming: the generator, suspended in its `async for` or at
\* the yield of a chunk, is closed there and runs no further statement
Abandon ==
    /\ gen_pc = "stream"
    /\ gen_pc' = "abandoned"
    /\ UNCHANGED <<genRest, gen_use_context, ai_items, commit_fails, chat_messages, sse_events,
                   gen_tokens_used, usage_increments>>

NextGen ==
    SendChatMessage \/ RelayItem \/ SaveAssistantMessage \/ UpdateUsage \/ SendComplete \/ Abandon

InitStoreAtRest ==
    InitStructureAtRest /\ InitClassifyAtRest /\ InitGenAtRest /\ InitShareAtRest

InitAiAtRest ==
    InitTokenAtRest /\ InitOutlineAtRest /\ InitContextAtRest /\ InitStoreAtRest

(***************************************************************************)
(* The period loop of get_or_create_user_usage, one iteration per step     *)
(***************************************************************************)
AnchorDates ==
    { Date(y, m, d) : y \in AnchorYears, m \in 1..12, d \in 1..31 }
        \cap { dt \in [y : AnchorYears, m : 1..12, d : 1..31] : ValidDate(dt.y, dt.m, dt.d) }

InitLoop ==
    /\ InitLedger
    /\ InitChecksAtRest
    /\ InitStreamAtRest
    /\ InitAiAtRest
    /\ plan_start_date \in AnchorDates
    /\ current_date = plan_start_date
    /\ days_ahead = 0
    /\ loop_pc = "idle"
    /\ period_start = plan_start_date
    /\ period_end = plan_start_date

\* a day passes between two calls
DayPasses ==
    /\ loop_pc = "idle"
    /\ days_ahead < MaxAhead
    /\ current_date' = NextDay(current_date)
    /\ days_ahead' = days_ahead + 1
    /\ UNCHANGED <<loop_pc, plan_start_date, period_start, period_end, dbVars, reqVars, pureVars, chatVars>>

\* period_start = plan_start_date, before the while
LoopEnter ==
    /\ loop_pc = "idle"
    /\ loop_pc' = "while"
    /\ period_start' = plan_start_date
    /\ period_end' = plan_start_date
    /\ UNCHANGED <<plan_start_date, current_date, days_ahead, dbVars, reqVars, pureVars, chatVars>>

\* one iteration that ends in break
LoopBreak ==
    /\ loop_pc = "while"
    /\ LET e == calculate_period_dates(period_start)[2] IN
        /\ DateLE(current_date, e)
        /\ period_end' = e
        /\ loop_pc' = "done"
    /\ UNCHANGED <<plan_start_date, current_date, period_start, days_ahead, dbVars, reqVars, pureVars, chatVars>>

\* one iteration that moves to the next period
LoopAdvance ==
    /\ loop_pc = "while"
    /\ LET e == calculate_period_dates(period_start)[2] IN
        /\ ~DateLE(current_date, e)
        /\ period_end' = e
        /\ period_start' = NextPeriodStart(e)
        /\ loop_pc' = "while"
    /\ UNCHANGED <<plan_start_date, current_date, days_ahead, dbVars, reqVars, pureVars, chatVars>>

\* the call returns; a later call starts over from the plan's start date
LoopReturn ==
    /\ loop_pc = "done"
    /\ loop_pc' = "idle"
    /\ period_start' = plan_start_date
    /\ period_end' = plan_start_date
    /\ UNCHANGED <<plan_start_date, current_date, days_ahead, dbVars, reqVars, pureVars, chatVars>>

NextLoop == DayPasses \/ LoopEnter \/ LoopBreak \/ LoopAdvance \/ LoopReturn

\* the period loop alone, over every activation date and the days that follow
SpecPeriod == InitLoop /\ [][NextLoop]_vars

InitLoopAtRest ==
    /\ plan_start_date = ClockDates[1]
    /\ current_date = ClockDates[1]
    /\ days_ahead = 0
    /\ loop_pc = "idle"
    /\ period_start = ClockDates[1]
    /\ period_end = ClockDates[1]

Init == InitLedger /\ InitLoopAtRest /\ InitChecksAtRest /\ InitStreamAtRest /\ InitAiAtRest

\* the ledger under concurrent requests
Spec == Init /\ [][Next]_vars

\* the ledger with one request at a time
SpecSeq == Init /\ [][NextSeq]_vars

\* the chat handler under concurrent requests
SpecChat == Init /\ [][NextChat]_vars

\* the upload handler with one request at a time
SpecUpload == Init /\ [][NextUpload]_vars

InitCheckRun == InitLedger /\ InitLoopAtRest /\ InitStreamAtRest /\ InitAiAtRest /\ InitChecks

\* the limit checks alone
SpecChecks == InitCheckRun /\ [][NextChecks]_vars

InitStreamRun == InitLedger /\ InitLoopAtRest /\ InitChecksAtRest /\ InitAiAtRest /\ InitStream

\* one run of the stream generator alone, over every provider behaviour
SpecStream == InitStreamRun /\ [][NextStream]_vars

\* the token cache alone, from an empty cache
SpecToken == Init /\ [][NextToken]_vars

InitOutlineRun ==
    /\ InitLedger /\ InitLoopAtRest /\ InitChecksAtRest /\ InitStreamAtRest
    /\ InitTokenAtRest /\ InitContextAtRest /\ InitStoreAtRest /\ InitOutline

\* extract_pdf_outline alone, over every table of contents within the bounds
SpecOutline == InitOutlineRun /\ [][NextOutline]_vars

InitContextRun ==
    /\ InitLedger /\ InitLoopAtRest /\ InitChecksAtRest /\ InitStreamAtRest
    /\ InitTokenAtRest /\ InitOutlineAtRest /\ InitStoreAtRest /\ InitContext

\* the context builder alone, over every request within the bounds
SpecContext == InitContextRun /\ [][NextContext]_vars

\* concurrent uploads, each request with its own session
SpecUploads == Init /\ [][NextUploads]_vars

\* extract_document_structure alone, request after request
SpecStructure == Init /\ [][NextStructure]_vars

\* the two except branches alone, over every error text within the bounds
SpecClassify == Init /\ [][NextClassify]_vars

\* the sharing endpoints alone, call after call
SpecShare == Init /\ [][NextShare]_vars

\* one chat request alone, from the questions check to the end of its stream
SpecGen == Init /\ [][NextGen]_vars

\* a running call keeps executing its loop
SpecPeriodFair == SpecPeriod /\ WF_vars(LoopBreak \/ LoopAdvance)

LastDayOfMonth(y, m) == Date(y, m, DaysInMonth(y, m))

\* C5: a plan activated on the 31st of a 31-day month whose following month is
\* shorter has a first period that ends on the last day of that following month.
C5_FirstPeriodEndsOnLastDayOfNextMonth ==
    (/\ loop_pc = "done"
     /\ period_start = plan_start_date
     /\ plan_start_date.d = 31
     /\ plan_start_date.m < 12
     /\ DaysInMonth(plan_start_date.y, plan_start_date.m + 1) < 31)
    => period_end = LastDayOfMonth(plan_start_date.y, plan_start_date.m + 1)

\* C6: every resolved period starts on the activation day-of-month whenever that
\* day exists in the month the period starts in.
C6_PeriodStartKeepsAnchorDay ==
    (/\ loop_pc = "done"
     /\ plan_start_date.d <= DaysInMonth(period_start.y, period_start.m))
    => period_start.d = plan_start_date.d

C7_Result ==
    loop_pc = "done" =>
        /\ DateLE(period_start, current_date)
        /\ DateLE(current_date, period_end)
        /\ period_end = calculate_period_dates(period_start)[2]

C7_Variant ==
    loop_pc = "while" =>
        /\ DateLE(plan_start_date, period_start)
        /\ DateLE(period_start, current_date)

C7_Chain ==
    (loop_pc = "while" /\ loop_pc' = "while") =>
        /\ DateLE(period_start, period_end')
        /\ period_start' = NextDay(period_end')
        /\ DateLT(period_start, period_start')

\* C7: for an activation date not after today the loop ends, with
\* period_start <= today <= period_end, having walked from the activation date
\* through periods that each start exactly one day after the previous one ends.
C7_LoopResolvesContiguousPeriod ==
    /\ [](C7_Result /\ C7_Variant)
    /\ [][C7_Chain]_vars
    /\ ((loop_pc = "while") ~> (loop_pc = "done"))

C7_Witness ==
    /\ loop_pc = "done"
    /\ DateLT(plan_start_date, period_start)
    /\ DateLT(period_start, current_date)

AtRest == \A r \in Requests : pc[r] \in {"idle", "done"}

\* C1: once concurrent increment_user_usage calls have all returned, every counter
\* of the period row equals the sum of the positive deltas: no increment is lost.
C1_NoIncrementLost ==
    AtRest => \A k \in UsageIds : \A c \in Counters : user_usage[k][c] = applied[k][c]

HoldsUsage(r) == pc[r] \in {"increment", "limits"} \/ (pc[r] = "done" /\ usage[r].id # 0)

\* C2: under concurrent get_or_create_user_usage calls there is one row per
\* (user, period_start), every caller returns that row, and the caller that loses
\* the insert race re-reads the row instead of raising.
C2_OneRowPerPeriodUnderRace ==
    /\ \A k1, k2 \in UsageIds :
        (/\ user_usage[k1].user_id = user_usage[k2].user_id
         /\ user_usage[k1].period_start = user_usage[k2].period_start) => k1 = k2
    /\ \A r \in Requests :
        /\ ret[r].kind # "raised"
        /\ HoldsUsage(r) =>
            /\ UsageRowsFor(usage[r].user_id, usage[r].period_start) = {usage[r].id}
            /\ usage[r].period_end = user_usage[usage[r].id].period_end

C2_Witness ==
    \E r1, r2 \in Requests :
        /\ r1 # r2
        /\ raced[r1] /\ ~raced[r2]
        /\ HoldsUsage(r1) /\ HoldsUsage(r2)
        /\ plan[r1] = plan[r2]
        /\ usage[r1].id = usage[r2].id
        /\ Len(user_usage) = 1

GetOrCreateReturns(r) ==
    /\ pc[r] \in {"get_or_create", "update_plan_id", "insert"}
    /\ pc'[r] \in {"increment", "limits"}

C3_SecondCall ==
    \A r \in Requests :
        (/\ GetOrCreateReturns(r)
         /\ last_call.id # 0
         /\ last_call.user_id = UserOf(r)
         /\ last_call.plan_id = plan[r])
        => /\ usage'[r] = last_call
           /\ user_usage' = user_usage
           /\ Cardinality(UsageRowsFor(last_call.user_id, last_call.period_start)) = 1

\* C3: get_or_create_user_usage called twice in succession for the same user, plan
\* and date returns the same row both times (same id, same period, counters as they
\* were), writes nothing the second time, and the (user, period_start) keeps one row.
C3_GetOrCreateIdempotent ==
    /\ [][C3_SecondCall]_vars
    /\ [](\A r \in Requests : ret[r].kind # "raised")

C3_Witness ==
    \E r \in Requests :
        /\ repeated
        /\ pc[r] = "limits"
        /\ usage[r] = last_call
        /\ usage[r].questions_count > 0

\* C4: every user has at most one plan whose status is active, also under
\* concurrent set_user_plan calls and concurrent first requests.
C4_AtMostOneActivePlan == \A u \in Users : Cardinality(ActivePlans(u)) <= 1

IncrementCommits(r) == pc[r] = "increment" /\ pc'[r] = "done"

C8_Step ==
    /\ \A k \in UsageIds : \A c \in Counters : user_usage'[k][c] >= user_usage[k][c]
    /\ \A r \in Requests : \A c \in Counters :
        (IncrementCommits(r) /\ DeltaOf(r)[ArgOf(c)] <= 0)
        => user_usage'[usage[r].id][c] = user_usage[usage[r].id][c]

\* C8: across ledger operations no counter of a usage row ever decreases, and a
\* zero or negative delta leaves its counter unchanged.
C8_CountersNeverDecrease == [][C8_Step]_vars

C9_Sum == \A k \in UsageIds : \A c \in Counters : user_usage[k][c] = applied[k][c]

C9_TouchesOnlyPositive ==
    \A r \in Requests :
        IncrementCommits(r) =>
            \A k \in UsageIds : \A c \in Counters :
                user_usage'[k][c] # user_usage[k][c] =>
                    /\ k = usage[r].id
                    /\ DeltaOf(r)[ArgOf(c)] > 0
                    /\ user_usage'[k][c] = user_usage[k][c] + DeltaOf(r)[ArgOf(c)]

\* C9: with increments applied one after another, each stored counter equals the
\* sum of the positive deltas applied so far, and an increment changes only the
\* counters whose delta is positive.
C9_SequentialIncrementsAddUp == []C9_Sum /\ [][C9_TouchesOnlyPositive]_vars

C9_Witness ==
    \E r \in Requests : \E k \in UsageIds :
        /\ pc[r] = "done"
        /\ op[r].kind = "increment_user_usage"
        /\ op[r].delta.tokens = 1
        /\ usage[r].id = k
        /\ usage[r].tokens_used = 1
        /\ user_usage[k].tokens_used = 2
        /\ user_usage[k].storage_bytes_used = 0

\* C10: the questions check refuses, with a message, exactly when
\* questionsCount >= maxQuestionsPerMonth and allows, with no message, exactly when
\* questionsCount < maxQuestionsPerMonth; the chat endpoint draws the same line.
C10_QuestionsBoundary ==
    \A r \in Requests :
        (pc[r] = "done" /\ ret[r].kind \in {"check", "chat"} /\ ~ret[r].data.is_none) =>
            LET q == ret[r].data.questionsCount
                m == ret[r].data.maxQuestionsPerMonth
            IN  IF ret[r].kind = "check"
                THEN /\ ret[r].result[1] = (q < m)
                     /\ (ret[r].result[2] = "None") = (q < m)
                ELSE /\ (ret[r].outcome = "LimitExceededError") = (q >= m)
                     /\ (ret[r].outcome = "accepted") = (q < m)

C10_Witness ==
    \E r \in Requests :
        /\ pc[r] = "done"
        /\ ret[r].kind = "check"
        /\ ~ret[r].data.is_none
        /\ ret[r].data.questionsCount = ret[r].data.maxQuestionsPerMonth
        /\ ret[r].result[1] = FALSE

(***************************************************************************)
(* Limit checks                                                            *)
(***************************************************************************)
Allowed == check_result.result[1]

Message == check_result.result[2]

\* C11: with usage data at hand, the storage check and the tokens check allow
\* exactly when usage plus the requested amount is <= the cap, so reaching the cap
\* is allowed, and refuse with a message otherwise; the file-count check allows
\* whenever maxFiles is NULL and otherwise exactly when filesCount < maxFiles.
C11_WouldExceedChecks ==
    (check_result.fn # "none" /\ ~check_data.is_none) =>
        /\ Allowed <=> (Message = "None")
        /\ check_result.fn = "check_storage_limit" =>
              (Allowed <=> check_data.storageBytesUsed + check_amount <= check_data.maxStorageBytes)
        /\ check_result.fn = "check_tokens_limit" =>
              (Allowed <=> check_data.tokensUsed + check_amount <= check_data.maxTokensPerMonth)
        /\ check_result.fn = "check_file_count_limit" =>
              IF check_data.maxFiles.is_none THEN Allowed
              ELSE Allowed <=> check_data.filesCount < check_data.maxFiles.value

\* a storage check that takes the usage exactly to the cap, and is allowed
C11_Witness ==
    /\ check_result.fn = "check_storage_limit"
    /\ ~check_data.is_none
    /\ check_amount > 0
    /\ check_data.storageBytesUsed + check_amount = check_data.maxStorageBytes
    /\ Allowed

(***************************************************************************)
(* The stream generator                                                    *)
(***************************************************************************)
\* the content of the chunks of st that carry any
NonEmptyContents(st) ==
    LET HasContent(c) == c.content # ""
        kept == SelectSeq(st, HasContent)
    IN [i \in 1..Len(kept) |-> kept[i].content]

\* the text the generator relayed: its str items that it did not make up
RelayedTexts ==
    LET IsRelayed(x) == x.type = "str" /\ ~x.synthetic
        kept == SelectSeq(emitted, IsRelayed)
    IN [i \in 1..Len(kept) |-> kept[i].content]

UsageItemsAt == { i \in 1..Len(emitted) : emitted[i].type = "usage" }

ErrorItemsAt == { i \in 1..Len(emitted) : emitted[i].type = "str" /\ emitted[i].synthetic }

\* C16: the text chunks relayed are the non-empty contents of the chunks received
\* so far, in the order received, each once; a usage item is the last item.
C16_ChunksRelayedInOrder ==
    /\ RelayedTexts = NonEmptyContents(SubSeq(upstream, 1, pos))
    /\ \A i \in UsageItemsAt : i = Len(emitted)

\* an empty delta was dropped, a text chunk relayed, and the usage item came last
C16_Witness ==
    /\ stream_pc = "end"
    /\ pos = Len(upstream)
    /\ \E i \in 1..Len(upstream) : upstream[i].content = ""
    /\ Len(emitted) = 2
    /\ emitted[1].type = "str" /\ emitted[2].type = "usage"

\* the generator ran its stream to the end without a failure
StreamEnded == stream_pc = "end" /\ failure.kind = "none" /\ create_calls = 1

\* C17: a stream yields at most one usage item; a stream that ended yields exactly
\* one when its final chunk reported usage, with the reported figures, and the
\* caller's token cost is prompt + completion; it yields none when the final chunk
\* reported nothing, and the caller's token cost is zero.
C17_AtMostOneUsageItem ==
    /\ Cardinality(UsageItemsAt) <= 1
    /\ StreamEnded =>
        IF upstream # <<>> /\ ~upstream[Len(upstream)].usage.is_none
        THEN /\ Cardinality(UsageItemsAt) = 1
             /\ emitted[Len(emitted)] = UsageItem(upstream[Len(upstream)].usage)
             /\ LET u == upstream[Len(upstream)].usage IN
                 /\ emitted[Len(emitted)].total_tokens = u.total_tokens
                 /\ caller_tokens_used = u.prompt_tokens + u.completion_tokens
        ELSE /\ UsageItemsAt = {}
             /\ caller_tokens_used = 0

\* chunks "Hel", "lo", usage {prompt 10, completion 2}: two chunk items, then one
\* usage item of total 12
C17_Witness ==
    /\ StreamEnded
    /\ Len(emitted) = 3
    /\ emitted[1] = StrItem("Hel")
    /\ emitted[2] = StrItem("lo")
    /\ emitted[3].type = "usage" /\ emitted[3].total_tokens = 12
    /\ caller_tokens_used = 12

\* the bearer-token provider, without a cached token, and no token to be had
NoCredential == provider = "gigachat" /\ ~cached_token /\ token_ok # "granted"

\* C18: when the credential cannot be obtained the generator makes no model call,
\* yields no text chunk and no usage item, raises nothing, and ends having yielded
\* exactly one error chunk.
C18_NoCredentialEndsStream ==
    NoCredential =>
        /\ create_calls = 0
        /\ ~raised
        /\ RelayedTexts = <<>>
        /\ UsageItemsAt = {}
        /\ stream_pc \in {"start", "token", "end"}
        /\ stream_pc = "end" => (Len(emitted) = 1 /\ ErrorItemsAt = {1})
        /\ stream_pc # "end" => emitted = <<>>

\* the token endpoint refused, and the stream ended with its one error chunk
C18_Witness ==
    /\ NoCredential
    /\ token_ok = "refused"
    /\ token_requests = 1
    /\ upstream # <<>>
    /\ stream_pc = "end"
    /\ Len(emitted) = 1

\* the provider failed and the generator is through with it
FailedAndEnded == stream_pc = "end" /\ failure.kind # "none" /\ create_calls >= 1

AppendsOnly ==
    \/ emitted' = emitted
    \/ Len(emitted') = Len(emitted) + 1 /\ SubSeq(emitted', 1, Len(emitted)) = emitted

\* C19: no exception leaves the generator; when the provider failed, the stream
\* holds exactly one error chunk, which is its last item, no usage item, and before
\* the error chunk the chunks relayed until the failure; what was yielded stays.
C19_UpstreamFailureBecomesFinalChunk ==
    /\ [](~raised)
    /\ [](FailedAndEnded =>
            /\ ErrorItemsAt = {Len(emitted)}
            /\ Len(emitted) >= 1
            /\ UsageItemsAt = {}
            /\ RelayedTexts = NonEmptyContents(SubSeq(upstream, 1, pos))
            /\ Len(emitted) = Len(RelayedTexts) + 1)
    /\ [][AppendsOnly]_vars

\* the provider failed after its first chunk, which stays ahead of the error chunk
C19_Witness ==
    /\ FailedAndEnded
    /\ failure.kind = "stream"
    /\ failure.after = 1
    /\ Len(emitted) = 2
    /\ emitted[1] = StrItem("Hel")
    /\ emitted[2].synthetic

\* C20: one stream request issues the chat call at most once and the token
\* request at most once, whatever the failure.
C20_NoRetry == create_calls <= 1 /\ token_requests <= 1

\* a rate-limited chat call after a token request: each was issued once
C20_Witness ==
    /\ stream_pc = "end"
    /\ failure.kind = "create"
    /\ failure.error = "429"
    /\ create_calls = 1
    /\ token_requests = 1
    /\ emitted # <<>>

(***************************************************************************)
(* The chat and upload handlers                                            *)
(***************************************************************************)
\* C12: on the chat path the token-quota check is evaluated, and has allowed,
\* before the provider is invoked.
C12_TokensCheckedBeforeProvider ==
    \A r \in Requests : chat[r].invoked => chat[r].tokens_check = "allowed"

\* C13: a chat stream that ran to completion has updated the ledger exactly once,
\* by one question and its token cost.
C13_CompletedStreamCountsOnce ==
    \A r \in Requests : chat[r].completed => chat[r].counted = 1

\* max_questions_per_month of the plan a usage row belongs to
QuestionsCap(row) == PlanLimits(user_plans[row.plan_id].plan_type).max_questions_per_month

OverCap == { k \in UsageIds : user_usage[k].questions_count > QuestionsCap(user_usage[k]) }

C15_RefusalsAreStructured ==
    \A r \in Requests :
        (ret[r].kind \in {"http", "chat"} /\ ret[r].refusal # "none") =>
            /\ ret[r].response.body.error_type = "limit_exceeded"
            /\ ret[r].response.body.limit_type = ret[r].refusal

(***************************************************************************)
(* The token cache                                                         *)
(***************************************************************************)
IsGet(call) == call.fn = "get_gigachat_token"

\* a token is cached and more than 300 seconds away from its expiry
StillValid(token, time) == ~token.is_none /\ time < token.expires_at - 300

\* C21: with a cached token that is not expired under the 300-second rule,
\* get_gigachat_token returns that token, makes no credential exchange and leaves
\* the cache as it was; a call that follows a call which returned a token, and
\* finds that token still valid, returns the identical token without a
\* second exchange.
C21_CachedTokenReused ==
    (IsGet(token_call) /\ StillValid(token_call.cache_before, token_call.at)) =>
        /\ token_call.outcome = "returned"
        /\ token_call.access_token = token_call.cache_before.access_token
        /\ ~token_call.exchanged
        /\ _cached_token = token_call.cache_before
        /\ (IsGet(token_prev) /\ token_prev.outcome = "returned") =>
              /\ token_call.access_token = token_prev.access_token
              /\ token_call.exchanges = token_prev.exchanges
              /\ exchanges = token_prev.exchanges

\* a first call exchanged, time passed, and the second call found the token valid
C21_Witness ==
    /\ IsGet(token_prev) /\ token_prev.exchanged /\ token_prev.outcome = "returned"
    /\ token_prev.exchanges = 1
    /\ IsGet(token_call) /\ StillValid(token_call.cache_before, token_call.at)
    /\ token_call.at > token_prev.at
    /\ token_call.access_token = "t1"
    /\ exchanges = 1

\* C22: a cached token is reported expired exactly when now >= expiresAt - 300:
\* expired with expiresAt = now + 200 and with expiresAt = now + 300, valid with
\* expiresAt = now + 400.
C22_ExpiredFrom300SecondsBefore ==
    token_call.fn = "is_expired" =>
        LET expires_at == token_call.cache_before.expires_at
            at == token_call.at
        IN /\ token_call.outcome = "expired" <=> at >= expires_at - 300
           /\ token_call.outcome = "valid" <=> at + 300 < expires_at
           /\ expires_at = at + 200 => token_call.outcome = "expired"
           /\ expires_at = at + 300 => token_call.outcome = "expired"
           /\ expires_at = at + 400 => token_call.outcome = "valid"

\* a token obtained with 400 seconds to live is asked 100 seconds later
C22_Witness ==
    /\ token_call.fn = "is_expired"
    /\ token_call.cache_before.expires_at = token_call.cache_before.created_at + 400
    /\ token_call.at = token_call.cache_before.created_at + 100
    /\ token_call.outcome = "expired"

\* C23: every token get_gigachat_token returns is non-empty and not expired under
\* the 300-second rule at the moment of return; a call that fails returns no
\* token and leaves the cached token as it was.
C23_NeverStaleOrEmpty ==
    IsGet(token_call) =>
        /\ token_call.outcome = "returned" =>
              /\ token_call.access_token # ""
              /\ _cached_token = token_call.cache_before
                    \/ _cached_token.created_at = token_call.at
              /\ _cached_token.access_token = token_call.access_token
              /\ StillValid(_cached_token, token_call.at)
        /\ token_call.outcome = "raised" =>
              /\ token_call.access_token = ""
              /\ _cached_token = token_call.cache_before

\* C24: after clear_token_cache the cache is empty and get_token_info returns
\* none; the next get_gigachat_token does not use the token cached before, even
\* if it was still valid: with the secret configured it makes a credential
\* exchange, and when that returns a token the cache holds exactly that token.
C24_ClearForcesExchange ==
    /\ token_call.fn = "clear_token_cache" => _cached_token = Null
    /\ (token_call.fn = "get_token_info" /\ token_prev.fn = "clear_token_cache") =>
          token_call.cache_before = Null
    /\ (IsGet(token_call) /\ token_prev.fn = "clear_token_cache") =>
          /\ token_call.cache_before = Null
          /\ token_call.auth_key => token_call.exchanged
          /\ token_call.exchanges =
                token_prev.exchanges + (IF token_call.auth_key THEN 1 ELSE 0)
          /\ token_call.outcome = "returned" =>
                _cached_token = TokenInfo(token_call.access_token,
                                          _cached_token.expires_at, token_call.at)

\* a still valid "t1" was cleared and the next call obtained "t2"
C24_Witness ==
    /\ token_prev.fn = "clear_token_cache"
    /\ StillValid(token_prev.cache_before, token_prev.at)
    /\ token_prev.cache_before.access_token = "t1"
    /\ IsGet(token_call) /\ token_call.exchanged /\ token_call.outcome = "returned"
    /\ _cached_token.access_token = "t2"

(***************************************************************************)
(* The context builder                                                     *)
(***************************************************************************)
\* build_context_pages returned a list
Built == ctx_pc = "done"

\* the pages of the list returned
ContextPageSet == { context_pages.pages[i] : i \in 1..Len(context_pages.pages) }

CurrentPageInDocument == total_pages >= 1 /\ current_page \in 1..total_pages

\* C25: in 'page' mode, with totalPages >= 1 and currentPage in 1..totalPages, the
\* list returned contains currentPage and no page below 1 or above totalPages.
C25_PageModeStaysInDocument ==
    (ctx_pc \in {"done", "raised"} /\ context_type = "page" /\ CurrentPageInDocument) =>
        /\ Built
        /\ current_page \in ContextPageSet
        /\ \A p \in ContextPageSet : 1 <= p /\ p <= total_pages

\* the last page of a document, with a context radius of 1 configured
C25_Witness ==
    /\ Built /\ context_type = "page"
    /\ total_pages = MaxPages /\ current_page = total_pages
    /\ chat_context_pages = 1
    /\ context_pages.pages = <<current_page>>

\* C26: in 'page' mode the list returned is exactly the pages p of the document
\* with |p - currentPage| <= N, N being the configured CHAT_CONTEXT_PAGES: the
\* current page alone for N = 0, three pages for N = 1 and an interior page.
C26_WindowOfRadiusN ==
    (Built /\ context_type = "page" /\ CurrentPageInDocument) =>
        ContextPageSet =
            { p \in 1..total_pages :
                /\ p - current_page <= chat_context_pages
                /\ current_page - p <= chat_context_pages }

\* C27: for 'document' and totalPages >= 1 the list returned is 1..min(totalPages,
\* CAP) for one fixed cap, and the context description announces that same range.
C27_DocumentCapAsAnnounced ==
    (Built /\ context_type = "document" /\ total_pages >= 1) =>
        LET n == Len(context_pages.pages)
        IN /\ n >= 1
           /\ n <= max_pages
           /\ n = Min2(total_pages, max_pages)
           /\ \A i \in 1..n : context_pages.pages[i] = i
           /\ context_desc.kind = "document"
           /\ context_desc.first = NotNull(1)
           /\ context_desc.last = NotNull(n)

ChapterRequested == context_type \in {"chapter", "section"}

\* C28: for 'chapter' or 'section' with the chapter's row found, the list returned
\* is exactly the pages p with max(1, pageFrom) <= p <= min(pageTo, totalPages),
\* whatever stored row the metadata comes from; without a chapter id, or with an
\* id that resolves to no row, the result is that of 'page' mode; no case raises.
C28_ChapterRangeClamped ==
    (ctx_pc \in {"done", "raised"} /\ ChapterRequested) =>
        /\ Built
        /\ chapter_id = "stored" =>
              /\ ~chapter.pageTo.is_none
              /\ ContextPageSet =
                    { p \in 1..total_pages :
                        chapter.pageFrom <= p /\ p <= chapter.pageTo.value }
              /\ Len(context_pages.pages) = Cardinality(ContextPageSet)
        /\ chapter_id # "stored" =>
              /\ chapter_info.is_none
              /\ context_pages.pages = <<current_page>>
              /\ context_desc.kind = "page"

\* a chapter whose entry has no target page (pageFrom 0) and runs past the
\* document's end
C28_Witness ==
    /\ Built /\ context_type = "chapter" /\ chapter_id = "stored"
    /\ chapter.pageFrom = 0
    /\ chapter.pageTo.value > total_pages
    /\ total_pages = 2
    /\ context_pages.pages = <<1, 2>>

\* C29: the list returned is strictly ascending, and it is empty exactly when
\* totalPages < 1.
C29_AscendingAndEmptyOnlyWithoutPages ==
    Built =>
        /\ \A i \in 1..(Len(context_pages.pages) - 1) :
              context_pages.pages[i] < context_pages.pages[i + 1]
        /\ total_pages >= 1 => context_pages.pages # <<>>
        /\ total_pages < 1 => context_pages.pages = <<>>

(***************************************************************************)
(* The outline                                                             *)
(***************************************************************************)
\* the first entry after i whose level is not deeper than that of i; 0 if none
NextAtSameOrHigherLevel(i) ==
    LET later == { j \in (i + 1)..Len(structure_items) :
                     structure_items[j].level <= structure_items[i].level }
    IN IF later = {} THEN 0 ELSE Least(later)

ResolvedPageTo(i) ==
    LET j == NextAtSameOrHigherLevel(i)
    IN IF j = 0 THEN page_count
       ELSE IF structure_items[j].pageFrom - 1 > structure_items[i].pageFrom
            THEN structure_items[j].pageFrom - 1
            ELSE structure_items[i].pageFrom

\* C30: pageTo[i] = max(pageFrom[i], pageFrom[j] - 1) for the first later entry j
\* with level[j] <= level[i], and totalPages when there is none; for the entries
\* (1,A,1), (2,A.1,2), (1,B,5) over 10 pages: A = 1..4, A.1 = 2..4, B = 5..10.
C30_PageToResolved ==
    outline_pc = "done" =>
        /\ \A i \in 1..Len(structure_items) :
              structure_items[i].pageTo = NotNull(ResolvedPageTo(i))
        /\ (outline = ExampleToc /\ page_count = 10) =>
              /\ structure_items[1].pageFrom = 1 /\ structure_items[1].pageTo = NotNull(4)
              /\ structure_items[2].pageFrom = 2 /\ structure_items[2].pageTo = NotNull(4)
              /\ structure_items[3].pageFrom = 5 /\ structure_items[3].pageTo = NotNull(10)

\* C31: every entry extract_pdf_outline returns has a pageTo, and pageFrom <= pageTo,
\* also when consecutive entries start on the same page.
C31_PageToResolvedNotBeforePageFrom ==
    outline_pc = "done" =>
        \A i \in 1..Len(structure_items) :
            /\ ~structure_items[i].pageTo.is_none
            /\ structure_items[i].pageFrom <= structure_items[i].pageTo.value

\* C32: every entry's pageFrom is the raw outline page clamped into
\* 1..totalPages; a raw page already in that range is kept.
C32_PageFromClamped ==
    outline_pc = "done" =>
        \A i \in 1..Len(structure_items) :
            /\ 1 <= structure_items[i].pageFrom
            /\ structure_items[i].pageFrom <= page_count
            /\ structure_items[i].pageFrom =
                  convert_page_number(NotNull(outline[i].page), page_count)

\* the earlier entries with a strictly smaller level than entry i
EarlierWithSmallerLevel(i) ==
    { j \in 1..(i - 1) : structure_items[j].level < structure_items[i].level }

\* the greatest element of a non-empty set of integers
Greatest(S) == CHOOSE x \in S : \A y \in S : y <= x

\* the ancestors of entry i, following parentId at most n times
RECURSIVE Ancestors(_, _)
Ancestors(i, n) ==
    IF n = 0 \/ structure_items[i].parentId = 0 THEN {}
    ELSE {structure_items[i].parentId} \cup Ancestors(structure_items[i].parentId, n - 1)

\* C33: parentId is the id of the nearest earlier entry with a strictly smaller
\* level, none when there is no such entry; a parent precedes its child and has
\* a smaller level, orderIndex is the position in the sequence, and no entry is
\* its own ancestor.
C33_ParentIsNearestShallowerEntry ==
    outline_pc = "done" =>
        \A i \in 1..Len(structure_items) :
            /\ structure_items[i].id = i
            /\ structure_items[i].orderIndex = i - 1
            /\ structure_items[i].level = outline[i].level
            /\ structure_items[i].parentId =
                  (IF EarlierWithSmallerLevel(i) = {} THEN 0
                   ELSE structure_items[Greatest(EarlierWithSmallerLevel(i))].id)
            /\ structure_items[i].parentId # 0 =>
                  /\ structure_items[i].parentId < i
                  /\ structure_items[structure_items[i].parentId].level
                        < structure_items[i].level
            /\ i \notin Ancestors(i, Len(structure_items))

\* two sections of one chapter: the second section's parent is the chapter, not
\* the section before it
C33_Witness ==
    /\ outline_pc = "done"
    /\ Len(structure_items) = 3
    /\ structure_items[1].level = 1 /\ structure_items[1].parentId = 0
    /\ structure_items[2].level = 2 /\ structure_items[2].parentId = 1
    /\ structure_items[3].level = 2 /\ structure_items[3].parentId = 1
\* the items of the rows a document has stored
StoredItems(document_id) == { row.item : row \in RowsOf(document_structure, document_id) }

\* a request with force set that ran the extraction for a document that had rows
ForcedReExtraction ==
    /\ structure_call.document_id # "none"
    /\ structure_call.outcome = "extracted"
    /\ structure_call.force
    /\ structure_call.replaced

\* C34: after a forced re-extraction the rows stored for the document are exactly
\* the items that extraction produced, none of them from an earlier extraction.
C34_ForcedReExtractionReplaces ==
    ForcedReExtraction =>
        /\ StoredItems(structure_call.document_id) =
                { structure_call.extracted[i] : i \in 1..Len(structure_call.extracted) }
        /\ \A row \in RowsOf(document_structure, structure_call.document_id) :
                row.extraction = extractions


\* the four counters of a usage row
CountersOf(row) == [c \in Counters |-> row[c]]

\* a row whose period the date has left and after which the user has a later row
Superseded(k) ==
    /\ DateLT(user_usage[k].period_end, today)
    /\ \E j \in DOMAIN user_usage :
        /\ user_usage[j].user_id = user_usage[k].user_id
        /\ DateLT(user_usage[k].period_end, user_usage[j].period_start)

Mentions(words) == \E i \in 1..Len(error_text) : error_text[i] \in words

MentionsPair(first, second) ==
    \E i \in 1..(Len(error_text) - 1) : error_text[i] \in first /\ error_text[i + 1] \in second

\* the class the stated precedence gives str(e)
ClaimedClass ==
    IF MentionsPair({"Insufficient"}, {"Balance"}) \/ Mentions({"402"}) THEN "402"
    ELSE IF Mentions({"401", "Unauthorized"}) THEN "401"
    ELSE IF Mentions({"429"}) \/ MentionsPair({"rate", "Rate"}, {"limit"}) THEN "429"
    ELSE IF Mentions({"Connection", "connection"}) THEN "connection"
    ELSE "other"

BothClassified == Len(classified.no_context) > 0 /\ Len(classified.context) > 0

\* C36: a failure yields one message per entry point, its class is the one the
\* precedence balance, unauthorized, rate limit, connection, generic gives the
\* error text, the generic message carries the text as it is, and the two entry
\* points yield the same message for the same text.
C36_OneMessageClassifiedByPrecedence ==
    /\ Len(classified.no_context) <= 1
    /\ Len(classified.context) <= 1
    /\ \A m \in {classified.no_context[i] : i \in 1..Len(classified.no_context)}
            \cup {classified.context[i] : i \in 1..Len(classified.context)} :
        /\ m.kind = ClaimedClass
        /\ m.kind = "other" => m.text = NotNull(error_text)
        /\ m.message = ErrorMessage(ClaimedClass, classified.provider)
    /\ BothClassified => classified.no_context = classified.context

\* a text that names two classes: balance wins over unauthorized at both entry points
C36_Witness ==
    /\ BothClassified
    /\ error_text = <<"401", "402">>
    /\ classified.context[1].kind = "402"
    /\ classified.no_context[1].kind = "402"


\* C37: for every request and every configured radius the mock service's
\* build_context_pages returns what the real service's build_context_pages returns.
C37_MockSelectsSamePages ==
    ctx_pc \in {"done", "raised"} =>
        mock_build_context_pages(current_page, total_pages, context_type, chapter_info,
                                 chat_context_pages) = context_pages


\* the step in which create_document_endpoint refuses the upload of request r
UploadRefused(r) ==
    /\ op[r].kind = "create_document"
    /\ pc[r] = "limits"
    /\ pc'[r] = "done"

\* the step in which the last of the three checks passes and create_document runs
UploadAccepted(r) ==
    /\ op[r].kind = "create_document"
    /\ pc[r] = "limits"
    /\ op'[r].stage = "increment"

\* the step in which increment_user_usage of request r commits
UploadCounted(r) ==
    /\ op[r].kind = "create_document"
    /\ pc[r] = "increment"
    /\ pc'[r] = "done"

\* C38: a refused upload creates no document row and leaves storage_bytes_used
\* and files_count as they are; an accepted upload creates exactly one document
\* row, and its increment raises the stored storage_bytes_used by the file size
\* and the stored files_count by 1.
C38_UploadAndLedgerMoveTogether ==
    [][/\ \A r \in Requests :
            /\ UploadRefused(r) => documents' = documents /\ user_usage' = user_usage
            /\ UploadAccepted(r) =>
                    /\ documents' = Append(documents, [owner_id |-> op[r].user_id,
                                                       size_bytes |-> op[r].size_bytes])
                    /\ user_usage' = user_usage
            /\ UploadCounted(r) =>
                    LET k == usage[r].id IN
                    /\ documents' = documents
                    /\ user_usage'[k].storage_bytes_used =
                            user_usage[k].storage_bytes_used + op[r].size_bytes
                    /\ user_usage'[k].files_count = user_usage[k].files_count + 1
       /\ documents' # documents => \E r \in Requests : UploadAccepted(r)]_vars


\* the roles stored for the request, and the events sent to it
Stored(role) == \E i \in 1..Len(chat_messages) : chat_messages[i] = role

Sent(type) == \E i \in 1..Len(sse_events) : sse_events[i].type = type

TerminalEvents == { i \in 1..Len(sse_events) : IsTerminal(sse_events[i]) }

\* C39: the user message is stored before streaming starts; the assistant
\* message is stored only after the provider stream has ended; 'complete' is sent
\* only after the assistant message was committed and the usage increment was
\* applied; a stream that ended sent exactly one terminal event, as its last
\* event; an abandoned stream stored no assistant message and counted nothing.
C39_ChatStreamOrdering ==
    /\ gen_pc \notin {"idle", "refused"} => Len(chat_messages) > 0 /\ chat_messages[1] = "user"
    /\ Stored("assistant") => ai_items = <<>>
    /\ Sent("complete") => Stored("assistant") /\ Len(usage_increments) = 1
    /\ gen_pc = "end" => TerminalEvents = {Len(sse_events)}
    /\ gen_pc # "end" => TerminalEvents = {}
    /\ gen_pc = "abandoned" => ~Stored("assistant") /\ usage_increments = <<>>


Revoked(i) == ~document_shares[i].revoked_at.is_none

\* the user is not the owner and every share of the document the user opened is revoked
OnlyThroughRevoked(document_id, user_id) ==
    /\ OwnerOf(document_id) # user_id
    /\ \A i \in ShareIds(document_shares) :
            (<<i, user_id>> \in document_share_access
                /\ document_shares[i].document_id = document_id) => Revoked(i)

HasAccess(document_id, user_id) ==
    check_user_has_document_access(document_shares, document_share_access,
                                   document_id, user_id, utcnow)

\* C40: a revoked share stays revoked and keeps its token, and that token resolves
\* in no later state; a user whose access to the document came only through
\* revoked shares does not pass check_user_has_document_access; a new share gets a
\* token no other share has, and creating it gives no user access to the document.
C40_RevocationIsPermanent ==
    /\ [](/\ \A i \in ShareIds(document_shares) :
                Revoked(i) =>
                    get_document_share_by_token(document_shares,
                                                document_shares[i].share_token, utcnow) = {}
          /\ \A i, j \in ShareIds(document_shares) :
                document_shares[i].share_token = document_shares[j].share_token => i = j
          /\ \A d \in DocumentIds, u \in Accounts :
                OnlyThroughRevoked(d, u) => ~HasAccess(d, u))
    /\ [][/\ \A i \in ShareIds(document_shares) :
                /\ i \in ShareIds(document_shares')
                /\ document_shares'[i].share_token = document_shares[i].share_token
                /\ document_shares'[i].document_id = document_shares[i].document_id
                /\ Revoked(i) => document_shares'[i].revoked_at = document_shares[i].revoked_at
          /\ Len(document_shares') > Len(document_shares) =>
                \A d \in DocumentIds, u \in Accounts :
                    check_user_has_document_access(document_shares', document_share_access',
                                                   d, u, utcnow') = HasAccess(d, u)]_vars

\* the reader opened a share that was then revoked; a second share of the same
\* document exists, unrevoked, with another token, and the reader has no access
C40_Witness ==
    /\ Len(document_shares) = 2
    /\ Revoked(1)
    /\ <<1, "u2">> \in document_share_access
    /\ ~Revoked(2)
    /\ document_shares[2].document_id = document_shares[1].document_id
    /\ document_shares[2].expires_at.is_none
    /\ document_shares[2].share_token # document_shares[1].share_token
    /\ ~HasAccess(document_shares[1].document_id, "u2")


====
